---- MODULE Spec2Model ----
(***************************************************************************)
(* A model of android/physics/PhysicalModel.cpp: PhysicalModelImpl, the    *)
(* object that drives an InertialModel and an AmbientEnvironment, keeps    *)
(* the per-sensor override table and measurement ids, notifies a           *)
(* QAndroidPhysicalStateAgent and records events on an automation sink.    *)
(*                                                                         *)
(* Every member function is written once, as the list of its steps in      *)
(* source order (take the mutex, a block of statements, release the mutex, *)
(* call a callback).  Spec runs a whole member function as one action;     *)
(* SpecThreads lets two threads interleave the same steps.                 *)
(***************************************************************************)
EXTENDS Integers, Sequences, FiniteSets, TLC

(***************************************************************************)
(* Bounds of the model.                                                    *)
(***************************************************************************)
\* measurement ids are counted up to MaxId
MaxId == 2
\* model times 0 .. MaxTime
MaxTime == 1
\* the longest log of hook calls followed in SpecNotify
MaxLog == 4

(***************************************************************************)
(* Enumerations.  The model keeps three of the physical parameters and two *)
(* of the sensors: the two parameters loadState orders specially, and one  *)
(* vec3 and one float of each list.                                        *)
(***************************************************************************)
PHYSICAL_PARAMETERS_LIST == <<"POSITION", "VELOCITY", "TEMPERATURE">>
MAX_PHYSICAL_PARAMETERS == Len(PHYSICAL_PARAMETERS_LIST)
Parameters == 0 .. (MAX_PHYSICAL_PARAMETERS - 1)
ParameterName(p) == PHYSICAL_PARAMETERS_LIST[p + 1]
PHYSICAL_PARAMETER_POSITION == 0
PHYSICAL_PARAMETER_VELOCITY == 1
PHYSICAL_PARAMETER_TEMPERATURE == 2
\* the value type of a parameter (4th column of PHYSICAL_PARAMETERS_LIST)
ParameterIsVec3(p) == ParameterName(p) \in {"POSITION", "VELOCITY"}
\* the leaf model a parameter lives in
InertialParameters == {p \in Parameters : ParameterName(p) \in {"POSITION", "VELOCITY"}}
AmbientParameters == Parameters \ InertialParameters

SENSORS_LIST == <<"ACCELERATION", "TEMPERATURE">>
MAX_SENSORS == Len(SENSORS_LIST)
Sensors == 0 .. (MAX_SENSORS - 1)
SensorName(s) == SENSORS_LIST[s + 1]
ANDROID_SENSOR_ACCELERATION == 0
ANDROID_SENSOR_TEMPERATURE == 1
SensorIsVec3(s) == SensorName(s) \in {"ACCELERATION"}

PHYSICAL_INTERPOLATION_SMOOTH == "SMOOTH"
PHYSICAL_INTERPOLATION_STEP == "STEP"
Interpolations == {PHYSICAL_INTERPOLATION_SMOOTH, PHYSICAL_INTERPOLATION_STEP}

PARAMETER_VALUE_TYPE_TARGET == "TARGET"
PARAMETER_VALUE_TYPE_CURRENT == "CURRENT"
PARAMETER_VALUE_TYPE_CURRENT_NO_AMBIENT_MOTION == "CURRENT_NO_AMBIENT_MOTION"

EIO == 5

(***************************************************************************)
(* Values: a float is a small integer, a vec3 a triple of floats.          *)
(***************************************************************************)
\* the floats 0.0 and 1.0
Floats == {0, 1}
Vec3s == {<<x, 0, 0>> : x \in Floats}
kVecZero == <<0, 0, 0>>
ParameterValues(p) == IF ParameterIsVec3(p) THEN Vec3s ELSE Floats
SensorValues(s) == IF SensorIsVec3(s) THEN Vec3s ELSE Floats
ZeroOfParameter(p) == IF ParameterIsVec3(p) THEN kVecZero ELSE 0
ZeroOfSensor(s) == IF SensorIsVec3(s) THEN kVecZero ELSE 0
VecSub(a, b) == <<a[1] - b[1], a[2] - b[2], a[3] - b[3]>>

(***************************************************************************)
(* The state agent (observer) and its three hooks.  nullptr is 0.  Agent 1 *)
(* sets every hook; agent 2 leaves onPhysicalStateStabilized null; the     *)
(* hooks of agent 3 call back into the model.                              *)
(***************************************************************************)
nullptr == 0
Agents == {1, 2}
ReentrantAgent == 3
Hooks == {"onPhysicalStateChanging", "onPhysicalStateStabilized", "onTargetStateChanged"}
HasHook(agent, hook) ==
    agent \in {1, ReentrantAgent} \/ (agent = 2 /\ hook # "onPhysicalStateStabilized")

VARIABLES
    mIsPhysicalStateChanging,  \* bool
    mUseOverride,              \* [Sensors -> BOOLEAN]
    mMeasurementId,            \* [Sensors -> Nat]
    mOverride,                 \* [Sensors -> value]: the m<Sensor>Override members
    mInertialModel,            \* [InertialParameters -> [cur, tgt]]
    mAmbientEnvironment,       \* [AmbientParameters -> [cur, tgt]]
    mAgent,                    \* nullptr or an agent
    mAutomationController,     \* nullptr (0) or the controller (1)
    mModelTimeNs,
    mGroundTruthStream,        \* empty, or a StdioStream around what fopen returned
    openFiles,                 \* stdio: how many FILEs fopen returned that are not closed
    mMutex,                    \* [owner, count]: the recursive mutex
    threads,                   \* per thread: remaining steps, locals, return value
    calls,                     \* the calls the last action made: hooks, leaf setters, stdio
    last                       \* the member function the last action ran (Spec) or started (SpecThreads)

vars == <<mIsPhysicalStateChanging, mUseOverride, mMeasurementId, mOverride,
          mInertialModel, mAmbientEnvironment, mAgent, mAutomationController,
          mModelTimeNs, mGroundTruthStream, openFiles, mMutex, threads, calls, last>>


(***************************************************************************)
(* The object's members as one record, so that a block of statements is a  *)
(* function from members to members.                                       *)
(***************************************************************************)
Members ==
    [mIsPhysicalStateChanging |-> mIsPhysicalStateChanging,
     mUseOverride |-> mUseOverride,
     mMeasurementId |-> mMeasurementId,
     mOverride |-> mOverride,
     mInertialModel |-> mInertialModel,
     mAmbientEnvironment |-> mAmbientEnvironment,
     mAgent |-> mAgent,
     mAutomationController |-> mAutomationController,
     mModelTimeNs |-> mModelTimeNs,
     mGroundTruthStream |-> mGroundTruthStream,
     openFiles |-> openFiles,
     mMutex |-> mMutex,
     calls |-> <<>>]

\* mGroundTruthStream: empty, a StdioStream that owns an open FILE, or a
\* StdioStream that owns the null FILE a failed fopen returned
NoStream == "nullptr"
StreamOf(fp) == IF fp = nullptr THEN "StdioStream(NULL)" ELSE "StdioStream(FILE)"

\* PhysicalModelImpl's member initialisers, and the leaf models at their defaults
InitialMembers ==
    [mIsPhysicalStateChanging |-> FALSE,
     mUseOverride |-> [s \in Sensors |-> FALSE],
     mMeasurementId |-> [s \in Sensors |-> 0],
     mOverride |-> [s \in Sensors |-> ZeroOfSensor(s)],
     mInertialModel |-> [p \in InertialParameters |->
                            [cur |-> ZeroOfParameter(p), tgt |-> ZeroOfParameter(p)]],
     mAmbientEnvironment |-> [p \in AmbientParameters |->
                            [cur |-> ZeroOfParameter(p), tgt |-> ZeroOfParameter(p)]],
     mAgent |-> nullptr,
     mAutomationController |-> nullptr,
     mModelTimeNs |-> 0,
     mGroundTruthStream |-> NoStream,
     openFiles |-> 0,
     mMutex |-> [owner |-> 0, count |-> 0],
     calls |-> <<>>]

\* a thread between two calls: no step left, locals unset
IdleThread == [agent |-> nullptr, prog |-> <<>>, flag |-> FALSE, vals |-> <<>>, ret |-> "void"]

(***************************************************************************)
(* The leaf models (InertialModel, AmbientEnvironment): per parameter a    *)
(* current and a target value.  Step sets both; Smooth sets the target and *)
(* the current value reaches it at a later time update.                    *)
(***************************************************************************)
LeafSetTarget(leaf, p, value, mode) ==
    [leaf EXCEPT ![p] = IF mode = PHYSICAL_INTERPOLATION_STEP
                        THEN [cur |-> value, tgt |-> value]
                        ELSE [cur |-> @.cur, tgt |-> value]]

\* get<X>(parameterValueType)
LeafGet(leaf, p, parameterValueType) ==
    IF parameterValueType = PARAMETER_VALUE_TYPE_TARGET THEN leaf[p].tgt ELSE leaf[p].cur

\* setCurrentTime: with `arrive` the interpolations end at this time
LeafSetCurrentTime(leaf, arrive) ==
    IF arrive THEN [p \in DOMAIN leaf |-> [cur |-> leaf[p].tgt, tgt |-> leaf[p].tgt]] ELSE leaf

\* the status setCurrentTime returns: INERTIAL_STATE_STABLE / AMBIENT_STATE_STABLE
LeafIsStable(leaf) == \A p \in DOMAIN leaf : leaf[p].cur = leaf[p].tgt

\* the members a parameter's leaf model is held in
LeafOf(m, p) == IF p \in InertialParameters THEN m.mInertialModel ELSE m.mAmbientEnvironment

ParameterTarget(m, p) == LeafGet(LeafOf(m, p), p, PARAMETER_VALUE_TYPE_TARGET)
ParameterCurrent(m, p) == LeafGet(LeafOf(m, p), p, PARAMETER_VALUE_TYPE_CURRENT)

\* mInertialModel.getAcceleration(): nonzero while the velocity is changing
InertialGetAcceleration(leaf) ==
    VecSub(leaf[PHYSICAL_PARAMETER_VELOCITY].tgt, leaf[PHYSICAL_PARAMETER_VELOCITY].cur)

\* mAmbientEnvironment.getGravity()
AmbientGetGravity == <<0, -1, 0>>

(***************************************************************************)
(* getPhysical<Sensor>(): the sensor value derived from the leaf models.   *)
(* The model has no rotation parameter, so the body frame is the world     *)
(* frame.                                                                  *)
(***************************************************************************)
getPhysical(m, sensor) ==
    IF SensorName(sensor) = "ACCELERATION"
    THEN VecSub(InertialGetAcceleration(m.mInertialModel), AmbientGetGravity)
    ELSE LeafGet(m.mAmbientEnvironment, PHYSICAL_PARAMETER_TEMPERATURE,
                 PARAMETER_VALUE_TYPE_CURRENT)


(***************************************************************************)
(* Steps.  A member function is a sequence of steps; a step is a record    *)
(* whose field i names what it does.                                       *)
(***************************************************************************)
\* std::lock_guard<std::recursive_mutex> lock(mMutex): construction and destruction
Lock == [i |-> "lock"]
Unlock == [i |-> "unlock"]
\* if (agent && agent->hook) agent->hook(agent->context), for the local variable agent
CallbackLocal(hook) == [agent |-> nullptr, hook |-> hook, i |-> "callback", of |-> "local"]
\* the same for an agent that is the function's argument
CallbackArg(agent, hook) == [agent |-> agent, hook |-> hook, i |-> "callback", of |-> "arg"]
Return(value) == [value |-> value, i |-> "return"]

\* the number of times thread `me` holds mMutex
Held(m, me) == IF m.mMutex.owner = me THEN m.mMutex.count ELSE 0

(***************************************************************************)
(* The blocks of statements.  Each takes the members m and the thread's    *)
(* locals th and gives both back.                                          *)
(***************************************************************************)
\* physicalStateChanging taking the agent on every call, not only on a transition
physicalStateChanging_block_AlwaysNotifies(m, th) ==
    [m |-> [m EXCEPT !.mIsPhysicalStateChanging = TRUE],
     th |-> [th EXCEPT !.agent = m.mAgent]]

\* physicalStateChanging, the locked block
physicalStateChanging_block(m, th) ==
    IF ~m.mIsPhysicalStateChanging
    THEN [m |-> [m EXCEPT !.mIsPhysicalStateChanging = TRUE],
          th |-> [th EXCEPT !.agent = m.mAgent]]
    ELSE [m |-> m, th |-> [th EXCEPT !.agent = nullptr]]

\* (variant: the measurement ids start again at zero)
physicalStateStabilized_block_ResetsIds(m, th) ==
    [m |-> [m EXCEPT !.mMeasurementId = [i \in Sensors |-> 0],
                     !.mIsPhysicalStateChanging = FALSE],
     th |-> [th EXCEPT !.agent = m.mAgent]]

\* (variant: the id of an overridden sensor is left alone)
physicalStateStabilized_block_SkipsOverridden(m, th) ==
    [m |-> [m EXCEPT !.mMeasurementId = [i \in Sensors |->
                                            IF m.mUseOverride[i] THEN @[i] ELSE @[i] + 1],
                     !.mIsPhysicalStateChanging = FALSE],
     th |-> [th EXCEPT !.agent = m.mAgent]]

\* (variant: stabilizing resets the overrides as a target change does)
physicalStateStabilized_block_ClearsOverrides(m, th) ==
    [m |-> [m EXCEPT !.mUseOverride = [i \in Sensors |-> FALSE],
                     !.mMeasurementId = [i \in Sensors |-> @[i] + 1],
                     !.mIsPhysicalStateChanging = FALSE,
                     !.calls = IF m.mIsPhysicalStateChanging THEN @
                               ELSE Append(@, [kind |-> "assert",
                                               what |-> "mIsPhysicalStateChanging"])],
     th |-> [th EXCEPT !.agent = m.mAgent]]

\* physicalStateStabilized, the locked block; a failed assert is logged in calls
physicalStateStabilized_block(m, th) ==
    [m |-> [m EXCEPT !.mMeasurementId = [i \in Sensors |-> @[i] + 1],
                     !.mIsPhysicalStateChanging = FALSE,
                     !.calls = IF m.mIsPhysicalStateChanging THEN @
                               ELSE Append(@, [kind |-> "assert",
                                               what |-> "mIsPhysicalStateChanging"])],
     th |-> [th EXCEPT !.agent = m.mAgent]]

\* targetStateChanged resetting every override but the last sensor's
targetStateChanged_block_SkipsLast(m, th) ==
    [m |-> [m EXCEPT !.mUseOverride = [i \in Sensors |->
                                          IF i = MAX_SENSORS - 1 THEN @[i] ELSE FALSE]],
     th |-> [th EXCEPT !.agent = m.mAgent]]

\* (variant: without an agent the overrides are left as they are)
targetStateChanged_block_NeedsAgent(m, th) ==
    IF m.mAgent = nullptr
    THEN [m |-> m, th |-> [th EXCEPT !.agent = nullptr]]
    ELSE [m |-> [m EXCEPT !.mUseOverride = [i \in Sensors |-> FALSE]],
          th |-> [th EXCEPT !.agent = m.mAgent]]

\* targetStateChanged, the locked block
targetStateChanged_block(m, th) ==
    [m |-> [m EXCEPT !.mUseOverride = [i \in Sensors |-> FALSE]],
     th |-> [th EXCEPT !.agent = m.mAgent]]

\* setTargetInternal<X>, the locked block: the leaf model's setter, a call
\* into the leaf model that is logged in calls
setTargetInternal_block(m, th, p, value, mode) ==
    LET call == [p |-> p, value |-> value, mode |-> mode, kind |-> "setTarget"]
    IN  [m |-> IF p \in InertialParameters
               THEN [m EXCEPT !.mInertialModel = LeafSetTarget(@, p, value, mode),
                              !.calls = Append(@, call)]
               ELSE [m EXCEPT !.mAmbientEnvironment = LeafSetTarget(@, p, value, mode),
                              !.calls = Append(@, call)],
         th |-> th]

\* setOverride without the measurement id increment
setOverride_block_NoIncrement(m, th, sensor, overrideValue) ==
    [m |-> [m EXCEPT !.mUseOverride[sensor] = TRUE,
                     !.mOverride[sensor] = overrideValue],
     th |-> th]

\* (variant: the measurement id of every sensor is incremented)
setOverride_block_CountsAll(m, th, sensor, overrideValue) ==
    [m |-> [m EXCEPT !.mUseOverride[sensor] = TRUE,
                     !.mMeasurementId = [i \in Sensors |-> @[i] + 1],
                     !.mOverride[sensor] = overrideValue],
     th |-> th]

\* setOverride, the locked block
setOverride_block(m, th, sensor, overrideValue) ==
    [m |-> [m EXCEPT !.mUseOverride[sensor] = TRUE,
                     !.mMeasurementId[sensor] = @ + 1,
                     !.mOverride[sensor] = overrideValue],
     th |-> th]

\* (variant: the id is incremented while changing whether overridden or not)
getSensorValue_block_CountsOverridden(m, th, sensor) ==
    LET m1 == IF m.mIsPhysicalStateChanging
              THEN [m EXCEPT !.mMeasurementId[sensor] = @ + 1]
              ELSE m
    IN [m |-> m1,
        th |-> [th EXCEPT !.ret = [value |-> IF m.mUseOverride[sensor]
                                             THEN m.mOverride[sensor]
                                             ELSE getPhysical(m1, sensor),
                                   measurement_id |-> m1.mMeasurementId[sensor],
                                   physical |-> ~m.mUseOverride[sensor]]]]

\* (variant: a physical read increments the id whatever the state)
getSensorValue_block_AlwaysCounts(m, th, sensor) ==
    IF m.mUseOverride[sensor]
    THEN [m |-> m,
          th |-> [th EXCEPT !.ret = [value |-> m.mOverride[sensor],
                                     measurement_id |-> m.mMeasurementId[sensor],
                                     physical |-> FALSE]]]
    ELSE LET m1 == [m EXCEPT !.mMeasurementId[sensor] = @ + 1]
         IN [m |-> m1,
             th |-> [th EXCEPT !.ret = [value |-> getPhysical(m1, sensor),
                                        measurement_id |-> m1.mMeasurementId[sensor],
                                        physical |-> TRUE]]]

\* getSensorValue; the result also tells whether physicalGetter was called
getSensorValue_block(m, th, sensor) ==
    IF m.mUseOverride[sensor]
    THEN [m |-> m,
          th |-> [th EXCEPT !.ret = [value |-> m.mOverride[sensor],
                                     measurement_id |-> m.mMeasurementId[sensor],
                                     physical |-> FALSE]]]
    ELSE LET m1 == IF m.mIsPhysicalStateChanging
                   THEN [m EXCEPT !.mMeasurementId[sensor] = @ + 1]
                   ELSE m
         IN [m |-> m1,
             th |-> [th EXCEPT !.ret = [value |-> getPhysical(m1, sensor),
                                        measurement_id |-> m1.mMeasurementId[sensor],
                                        physical |-> TRUE]]]

\* setCurrentTime deciding on the inertial model alone
setCurrentTime_block_IgnoresAmbient(m, th, time_ns, inertialArrives, ambientArrives) ==
    LET inertial == LeafSetCurrentTime(m.mInertialModel, inertialArrives)
        ambient == LeafSetCurrentTime(m.mAmbientEnvironment, ambientArrives)
    IN [m |-> [m EXCEPT !.mModelTimeNs = time_ns,
                        !.mInertialModel = inertial,
                        !.mAmbientEnvironment = ambient],
        th |-> [th EXCEPT !.flag = (LeafIsStable(inertial) /\ m.mIsPhysicalStateChanging)]]

\* (variant: the time update never finds the state stabilized)
setCurrentTime_block_NeverStabilized(m, th, time_ns, inertialArrives, ambientArrives) ==
    [m |-> [m EXCEPT !.mModelTimeNs = time_ns,
                     !.mInertialModel = LeafSetCurrentTime(@, inertialArrives),
                     !.mAmbientEnvironment = LeafSetCurrentTime(@, ambientArrives)],
     th |-> [th EXCEPT !.flag = FALSE]]

\* (variant: the model time is set one past the caller's time)
setCurrentTime_block_TimeAhead(m, th, time_ns, inertialArrives, ambientArrives) ==
    LET inertial == LeafSetCurrentTime(m.mInertialModel, inertialArrives)
        ambient == LeafSetCurrentTime(m.mAmbientEnvironment, ambientArrives)
    IN [m |-> [m EXCEPT !.mModelTimeNs = time_ns + 1,
                        !.mInertialModel = inertial,
                        !.mAmbientEnvironment = ambient],
        th |-> [th EXCEPT !.flag = (LeafIsStable(inertial) /\ LeafIsStable(ambient)
                                    /\ m.mIsPhysicalStateChanging)]]

\* setCurrentTime, the locked block; stateStabilized is th.flag
setCurrentTime_block(m, th, time_ns, inertialArrives, ambientArrives) ==
    LET inertial == LeafSetCurrentTime(m.mInertialModel, inertialArrives)
        ambient == LeafSetCurrentTime(m.mAmbientEnvironment, ambientArrives)
        isInertialModelStable == LeafIsStable(inertial)
        isAmbientModelStable == LeafIsStable(ambient)
    IN [m |-> [m EXCEPT !.mModelTimeNs = time_ns,
                        !.mInertialModel = inertial,
                        !.mAmbientEnvironment = ambient],
        th |-> [th EXCEPT !.flag = (isInertialModelStable /\ isAmbientModelStable
                                    /\ m.mIsPhysicalStateChanging)]]

\* (variant: attaching an agent marks the state as settled)
setPhysicalStateAgent_block_Settles(m, th, agent) ==
    [m |-> [m EXCEPT !.mAgent = agent, !.mIsPhysicalStateChanging = FALSE],
     th |-> [th EXCEPT !.flag = m.mIsPhysicalStateChanging]]

\* setPhysicalStateAgent, the locked block; stateChanging is th.flag
setPhysicalStateAgent_block(m, th, agent) ==
    [m |-> [m EXCEPT !.mAgent = agent],
     th |-> [th EXCEPT !.flag = m.mIsPhysicalStateChanging]]

\* setAutomationController
setAutomationController_block(m, th, controller) ==
    [m |-> [m EXCEPT !.mAutomationController = controller], th |-> th]

\* ~StdioStream of the stream a unique_ptr gives up: an owner closes its FILE
StdioStream_close(m) ==
    IF m.mGroundTruthStream = StreamOf(1)
    THEN [m EXCEPT !.openFiles = @ - 1, !.calls = Append(@, [kind |-> "fclose"])]
    ELSE m

\* stopRecordGroundTruth: mGroundTruthStream.reset(nullptr); no lock is taken
stopRecordGroundTruth_block(m, th) ==
    [m |-> [StdioStream_close(m) EXCEPT !.mGroundTruthStream = NoStream], th |-> th]

\* recordGroundTruth after stopRecordGroundTruth and the filename test: fopen
\* returns fp (nullptr when it failed), and the stream is reset to a new
\* StdioStream around it; no lock is taken
recordGroundTruth_block(m, th, fp) ==
    LET stream == StreamOf(fp)
        opened == [m EXCEPT !.openFiles = IF fp # nullptr THEN @ + 1 ELSE @,
                            !.calls = Append(@, [fp |-> fp, kind |-> "fopen"])]
    IN [m |-> [StdioStream_close(opened) EXCEPT !.mGroundTruthStream = stream],
        th |-> [th EXCEPT !.ret = IF stream = NoStream THEN -1 ELSE 0]]

\* getTransform after the parameters are read: the timestamp, and the line
\* written to the ground truth stream
getTransform_block(m, th, me) ==
    LET out == [position |-> th.vals[1], timestamp |-> m.mModelTimeNs]
    IN [m |-> IF m.mGroundTruthStream # NoStream
              THEN [m EXCEPT !.calls = Append(@, [kind |-> "fprintf",
                                                  stream |-> m.mGroundTruthStream,
                                                  time |-> out.timestamp,
                                                  held |-> Held(m, me)])]
              ELSE m,
        th |-> [th EXCEPT !.ret = out, !.vals = Tail(@)]]

\* get<Parameter>(parameterValueType), the value pushed on the thread's values;
\* the leaf model's getter is a call into the leaf model that is logged in calls
getParameter_block(m, th, p, parameterValueType) ==
    [m |-> [m EXCEPT !.calls = Append(@, [p |-> p, kind |-> "getParameter",
                                          pvt |-> parameterValueType])],
     th |-> [th EXCEPT !.vals = Append(@, LeafGet(LeafOf(m, p), p, parameterValueType))]]

(***************************************************************************)
(* Events of the automation protocol (pb::PhysicalModelEvent): a parameter *)
(* tag and two optional values, each a list of floats.                     *)
(***************************************************************************)
toProto(param) == ParameterName(param)

fromProto(param) ==
    IF \E p \in Parameters : ParameterName(p) = param
    THEN CHOOSE p \in Parameters : ParameterName(p) = param
    ELSE MAX_PHYSICAL_PARAMETERS

\* the data a float or vec3 is stored as
ProtoData(isVec3, value) == IF isVec3 THEN <<value[1], value[2], value[3]>> ELSE <<value>>

NewEvent(type) ==
    [type |-> type, has_current_value |-> FALSE, current_value |-> <<>>,
     has_target_value |-> FALSE, target_value |-> <<>>]

setProtoCurrentValue(event, isVec3, value) ==
    [event EXCEPT !.has_current_value = TRUE,
                  !.current_value = @ \o ProtoData(isVec3, value)]

setProtoTargetValue(event, isVec3, value) ==
    [event EXCEPT !.has_target_value = TRUE,
                  !.target_value = @ \o ProtoData(isVec3, value)]

\* (variant: a payload with too many floats gives its first ones)
getProtoValue_FirstValues(isVec3, data) ==
    IF isVec3
    THEN (IF Len(data) < 3 THEN kVecZero ELSE <<data[1], data[2], data[3]>>)
    ELSE (IF Len(data) < 1 THEN 0 ELSE data[1])

getProtoValue(isVec3, data) ==
    IF isVec3
    THEN (IF Len(data) # 3 THEN kVecZero ELSE <<data[1], data[2], data[3]>>)
    ELSE (IF Len(data) # 1 THEN 0 ELSE data[1])

\* (variant: the value is always stored as the target value)
generateEvent_block_AlwaysTarget(m, th, me, type, mode, value) ==
    LET command == setProtoTargetValue(NewEvent(toProto(type)), ParameterIsVec3(type), value)
    IN [m |-> IF m.mAutomationController # nullptr
              THEN [m EXCEPT !.calls = Append(@, [kind |-> "recordPhysicalModelEvent",
                                                  time |-> m.mModelTimeNs,
                                                  held |-> Held(m, me),
                                                  event |-> command])]
              ELSE m,
        th |-> th]

\* generateEvent: no lock is taken
generateEvent_block(m, th, me, type, mode, value) ==
    LET command0 == NewEvent(toProto(type))
        command == IF mode = PHYSICAL_INTERPOLATION_SMOOTH
                   THEN setProtoTargetValue(command0, ParameterIsVec3(type), value)
                   ELSE setProtoCurrentValue(command0, ParameterIsVec3(type), value)
    IN [m |-> IF m.mAutomationController # nullptr
              THEN [m EXCEPT !.calls = Append(@, [kind |-> "recordPhysicalModelEvent",
                                                  time |-> m.mModelTimeNs,
                                                  held |-> Held(m, me),
                                                  event |-> command])]
              ELSE m,
        th |-> th]


(***************************************************************************)
(* The snapshot stream: a sequence of 32-bit big-endian words, each kept   *)
(* as its two 16-bit halves <<high, low>>.  stream_put_float writes the    *)
(* bits of the float, stream_get_be32 past the end reads 0, and            *)
(* snapshotLoad keeps a count in an int32_t.                               *)
(***************************************************************************)
\* the word of an unsigned number below 2^31
Be32(v) == <<v \div 65536, v % 65536>>
\* 0.0f is 0x00000000 and 1.0f is 0x3F800000
FloatBits(v) == IF v = 0 THEN <<0, 0>> ELSE <<16256, 0>>
BitsFloat(w) == CHOOSE v \in Floats : FloatBits(v) = w
stream_get_be32(f, pos) == IF pos <= Len(f) THEN f[pos] ELSE <<0, 0>>
stream_get_float(f, pos) == BitsFloat(stream_get_be32(f, pos))
\* the uint32_t that stream_get_be32 returns, stored in an int32_t
ToInt32(w) == IF w[1] >= 32768 THEN (w[1] - 65536) * 65536 + w[2] ELSE w[1] * 65536 + w[2]

\* writeValueToStream(f, value) for a vec3 and for a float
writeValueToStream(f, isVec3, value) ==
    IF isVec3
    THEN f \o <<FloatBits(value[1]), FloatBits(value[2]), FloatBits(value[3])>>
    ELSE Append(f, FloatBits(value))

\* readValueFromStream(f, &value) at word pos, and the number of words it reads
readValueFromStream(f, pos, isVec3) ==
    IF isVec3
    THEN <<stream_get_float(f, pos), stream_get_float(f, pos + 1), stream_get_float(f, pos + 2)>>
    ELSE stream_get_float(f, pos)
WordsOf(isVec3) == IF isVec3 THEN 3 ELSE 1

\* snapshotSave, the loop over the sensors
RECURSIVE snapshotSave_overrides(_, _, _, _)
snapshotSave_overrides(m, f, sensor, max_sensors) ==
    IF sensor >= max_sensors
    THEN f
    ELSE LET f1 == Append(f, Be32(IF m.mUseOverride[sensor] THEN 1 ELSE 0))
             f2 == IF m.mUseOverride[sensor]
                   THEN writeValueToStream(f1, SensorIsVec3(sensor), m.mOverride[sensor])
                   ELSE f1
         IN snapshotSave_overrides(m, f2, sensor + 1, max_sensors)

(***************************************************************************)
(* The member functions, as sequences of steps in source order.            *)
(***************************************************************************)
\* (variant: the agent is called before the lock is released)
physicalStateChanging_CallsInsideLock ==
    <<Lock, [i |-> "physicalStateChanging_block"],
      CallbackLocal("onPhysicalStateChanging"), Unlock>>

physicalStateChanging ==
    <<Lock, [i |-> "physicalStateChanging_block"], Unlock,
      CallbackLocal("onPhysicalStateChanging")>>

physicalStateStabilized ==
    <<Lock, [i |-> "physicalStateStabilized_block"], Unlock,
      CallbackLocal("onPhysicalStateStabilized")>>

targetStateChanged ==
    <<Lock, [i |-> "targetStateChanged_block"], Unlock,
      CallbackLocal("onTargetStateChanged")>>

generateEvent(type, mode, value) ==
    <<[value |-> value, mode |-> mode, i |-> "generateEvent", type |-> type]>>

\* (variant: the internal setter records the event as well)
setTargetInternal_Records(p, value, mode) ==
    generateEvent(p, mode, value)
    \o physicalStateChanging
    \o <<Lock, [p |-> p, value |-> value, mode |-> mode, i |-> "setTargetInternal_block"],
         Unlock>>
    \o targetStateChanged

\* setTargetInternalPosition ... setTargetInternalHumidity: the same three calls
setTargetInternal(p, value, mode) ==
    physicalStateChanging
    \o <<Lock, [p |-> p, value |-> value, mode |-> mode, i |-> "setTargetInternal_block"],
         Unlock>>
    \o targetStateChanged

\* (variant: the event is generated after the target is set)
setTarget_EventLast(p, value, mode) ==
    setTargetInternal(p, value, mode) \o generateEvent(p, mode, value)

\* setTarget<X>(value, mode)
setTarget(p, value, mode) ==
    generateEvent(p, mode, value) \o setTargetInternal(p, value, mode)

\* override<Sensor>(override_value), through the setOverride helper
setOverride(sensor, overrideValue) ==
    physicalStateChanging
    \o <<Lock, [value |-> overrideValue, sensor |-> sensor, i |-> "setOverride_block"],
         Unlock>>

\* get<Sensor>(measurement_id), through the getSensorValue helper
getSensorValue(sensor) ==
    <<Lock, [sensor |-> sensor, i |-> "getSensorValue_block"], Unlock>>

\* (variant: the lock is not released)
setCurrentTime_KeepsLock(time_ns, inertialArrives, ambientArrives) ==
    <<Lock,
      [i |-> "setCurrentTime_block", time_ns |-> time_ns,
       inertialArrives |-> inertialArrives, ambientArrives |-> ambientArrives],
      [i |-> "if", then |-> physicalStateStabilized, else |-> <<>>]>>

setCurrentTime(time_ns, inertialArrives, ambientArrives) ==
    <<Lock,
      [i |-> "setCurrentTime_block", time_ns |-> time_ns,
       inertialArrives |-> inertialArrives, ambientArrives |-> ambientArrives],
      Unlock,
      [i |-> "if", then |-> physicalStateStabilized, else |-> <<>>]>>

\* (variant: the hooks are called before the agent is stored)
setPhysicalStateAgent_CallbacksFirst(agent) ==
    (IF agent # nullptr
     THEN <<[i |-> "if",
             then |-> <<CallbackArg(agent, "onPhysicalStateChanging")>>,
             else |-> <<CallbackArg(agent, "onPhysicalStateChanging"),
                        CallbackArg(agent, "onPhysicalStateStabilized")>>],
            CallbackArg(agent, "onTargetStateChanged")>>
     ELSE <<>>)
    \o <<Lock, [agent |-> agent, i |-> "setPhysicalStateAgent_block"], Unlock>>

\* (variant: the initial target state change goes through targetStateChanged)
setPhysicalStateAgent_ResetsOverrides(agent) ==
    <<Lock, [agent |-> agent, i |-> "setPhysicalStateAgent_block"], Unlock>>
    \o (IF agent # nullptr
        THEN <<[i |-> "if",
                then |-> <<CallbackArg(agent, "onPhysicalStateChanging")>>,
                else |-> <<CallbackArg(agent, "onPhysicalStateChanging"),
                           CallbackArg(agent, "onPhysicalStateStabilized")>>]>>
             \o targetStateChanged
        ELSE <<>>)

setPhysicalStateAgent(agent) ==
    <<Lock, [agent |-> agent, i |-> "setPhysicalStateAgent_block"], Unlock>>
    \o (IF agent # nullptr
        THEN <<[i |-> "if",
                then |-> <<CallbackArg(agent, "onPhysicalStateChanging")>>,
                else |-> <<CallbackArg(agent, "onPhysicalStateChanging"),
                           CallbackArg(agent, "onPhysicalStateStabilized")>>],
               CallbackArg(agent, "onTargetStateChanged")>>
        ELSE <<>>)

setAutomationController(controller) ==
    <<Lock, [i |-> "setAutomationController_block", controller |-> controller], Unlock>>

\* getParameter<X>(parameterValueType)
getParameter(p, parameterValueType) ==
    <<Lock, [p |-> p, i |-> "getParameter_block", pvt |-> parameterValueType], Unlock>>

\* getTransform, with the parameters of the reduced list
getTransform ==
    <<Lock>>
    \o getParameter(PHYSICAL_PARAMETER_POSITION, PARAMETER_VALUE_TYPE_CURRENT)
    \o <<[i |-> "getTransform_block"], Unlock>>

stopRecordGroundTruth == <<[i |-> "stopRecordGroundTruth_block"]>>

\* recordGroundTruth(filename), fopen returning fp
recordGroundTruth(filename, fp) ==
    stopRecordGroundTruth
    \o (IF filename = nullptr
        THEN <<Return(-1)>>
        ELSE <<[fp |-> fp, i |-> "recordGroundTruth_block"]>>)

\* snapshotSave, the loop over the parameters
RECURSIVE snapshotSave_parameters(_, _)
snapshotSave_parameters(parameter, max_parameters) ==
    IF parameter >= max_parameters
    THEN <<>>
    ELSE getParameter(parameter, PARAMETER_VALUE_TYPE_TARGET)
         \o <<[i |-> "writeValueToStream", isVec3 |-> ParameterIsVec3(parameter)]>>
         \o snapshotSave_parameters(parameter + 1, max_parameters)

\* (variant: saves the targets and declares no sensor)
snapshotSave_build_TargetsOnly(f, max_parameters, max_sensors) ==
    <<Lock, Return(f), [value |-> max_parameters, i |-> "stream_put_be32"]>>
    \o snapshotSave_parameters(0, max_parameters)
    \o <<[value |-> 0, i |-> "stream_put_be32"], Unlock>>

\* snapshotSave(f) as compiled with the given list lengths; the stream f is
\* the thread's return value
snapshotSave_build(f, max_parameters, max_sensors) ==
    <<Lock, Return(f), [value |-> max_parameters, i |-> "stream_put_be32"]>>
    \o snapshotSave_parameters(0, max_parameters)
    \o <<[value |-> max_sensors, i |-> "stream_put_be32"],
         [i |-> "snapshotSave_overrides", max_sensors |-> max_sensors],
         Unlock>>

\* snapshotSave(f) of this build
snapshotSave(f) == snapshotSave_build(f, MAX_PHYSICAL_PARAMETERS, MAX_SENSORS)

\* snapshotLoad(f), from the sensor at word pos on
RECURSIVE snapshotLoad_overrides(_, _, _, _)
snapshotLoad_overrides(f, pos, sensor, num_sensors) ==
    IF sensor >= num_sensors
    THEN <<Return(0)>>
    ELSE IF stream_get_be32(f, pos) # <<0, 0>>
         THEN setOverride(sensor, readValueFromStream(f, pos + 1, SensorIsVec3(sensor)))
              \o snapshotLoad_overrides(f, pos + 1 + WordsOf(SensorIsVec3(sensor)),
                                        sensor + 1, num_sensors)
         ELSE snapshotLoad_overrides(f, pos + 1, sensor + 1, num_sensors)

\* (variant: applies the first override before it rejects the sensor count)
snapshotLoad_sensors_ChecksLate(f, pos) ==
    LET num_sensors == ToInt32(stream_get_be32(f, pos))
    IN IF num_sensors > MAX_SENSORS
       THEN (IF stream_get_be32(f, pos + 1) # <<0, 0>>
             THEN setOverride(0, readValueFromStream(f, pos + 2, SensorIsVec3(0)))
             ELSE <<>>)
            \o <<Return(-EIO)>>
       ELSE snapshotLoad_overrides(f, pos + 1, 0, num_sensors)

\* snapshotLoad(f), from the sensor count at word pos on
snapshotLoad_sensors(f, pos) ==
    LET num_sensors == ToInt32(stream_get_be32(f, pos))
    IN IF num_sensors > MAX_SENSORS
       THEN <<Return(-EIO)>>
       ELSE snapshotLoad_overrides(f, pos + 1, 0, num_sensors)

\* (variant: the parameters are loaded as smooth targets)
RECURSIVE snapshotLoad_parameters_Smooth(_, _, _, _)
snapshotLoad_parameters_Smooth(f, pos, parameter, num_physical_parameters) ==
    IF parameter >= num_physical_parameters
    THEN snapshotLoad_sensors(f, pos)
    ELSE setTargetInternal(parameter,
                           readValueFromStream(f, pos, ParameterIsVec3(parameter)),
                           PHYSICAL_INTERPOLATION_SMOOTH)
         \o snapshotLoad_parameters_Smooth(f, pos + WordsOf(ParameterIsVec3(parameter)),
                                           parameter + 1, num_physical_parameters)

\* snapshotLoad(f), from the parameter at word pos on
RECURSIVE snapshotLoad_parameters(_, _, _, _)
snapshotLoad_parameters(f, pos, parameter, num_physical_parameters) ==
    IF parameter >= num_physical_parameters
    THEN snapshotLoad_sensors(f, pos)
    ELSE setTargetInternal(parameter,
                           readValueFromStream(f, pos, ParameterIsVec3(parameter)),
                           PHYSICAL_INTERPOLATION_STEP)
         \o snapshotLoad_parameters(f, pos + WordsOf(ParameterIsVec3(parameter)),
                                    parameter + 1, num_physical_parameters)

\* (variant: loads the first parameter before it rejects the parameter count)
snapshotLoad_ChecksLate(f) ==
    LET num_physical_parameters == ToInt32(stream_get_be32(f, 1))
    IN IF num_physical_parameters > MAX_PHYSICAL_PARAMETERS
       THEN setTargetInternal(0, readValueFromStream(f, 2, ParameterIsVec3(0)),
                              PHYSICAL_INTERPOLATION_STEP)
            \o <<Return(-EIO)>>
       ELSE snapshotLoad_parameters(f, 2, 0, num_physical_parameters)

snapshotLoad(f) ==
    LET num_physical_parameters == ToInt32(stream_get_be32(f, 1))
    IN IF num_physical_parameters > MAX_PHYSICAL_PARAMETERS
       THEN <<Return(-EIO)>>
       ELSE snapshotLoad_parameters(f, 2, 0, num_physical_parameters)

\* (variant: applies the target value before the current value)
replayEvent_TargetFirst(event) ==
    LET p == fromProto(event.type)
    IN IF p = MAX_PHYSICAL_PARAMETERS
       THEN <<>>
       ELSE (IF event.has_target_value
             THEN setTargetInternal(p, getProtoValue(ParameterIsVec3(p), event.target_value),
                                    PHYSICAL_INTERPOLATION_SMOOTH)
             ELSE <<>>)
            \o (IF event.has_current_value
                THEN setTargetInternal(p, getProtoValue(ParameterIsVec3(p), event.current_value),
                                       PHYSICAL_INTERPOLATION_STEP)
                ELSE <<>>)

\* replayEvent(event): the switch on fromProto(event.type()); a tag that is
\* no parameter falls to the default label
replayEvent(event) ==
    LET p == fromProto(event.type)
    IN IF p = MAX_PHYSICAL_PARAMETERS
       THEN <<>>
       ELSE (IF event.has_current_value
             THEN setTargetInternal(p, getProtoValue(ParameterIsVec3(p), event.current_value),
                                    PHYSICAL_INTERPOLATION_STEP)
             ELSE <<>>)
            \o (IF event.has_target_value
                THEN setTargetInternal(p, getProtoValue(ParameterIsVec3(p), event.target_value),
                                       PHYSICAL_INTERPOLATION_SMOOTH)
                ELSE <<>>)

\* (variant: the record carries the current value only)
serializeState_CurrentOnly(type, currentValue, targetValue) ==
    setProtoCurrentValue(NewEvent(toProto(type)), ParameterIsVec3(type), currentValue)

\* serializeState(state, type, currentValue, targetValue): the record it adds
serializeState(type, currentValue, targetValue) ==
    setProtoTargetValue(
        setProtoCurrentValue(NewEvent(toProto(type)), ParameterIsVec3(type), currentValue),
        ParameterIsVec3(type), targetValue)

\* saveState, the loop over the parameters
RECURSIVE saveState_parameters(_)
saveState_parameters(parameter) ==
    IF parameter >= MAX_PHYSICAL_PARAMETERS
    THEN <<>>
    ELSE getParameter(parameter, PARAMETER_VALUE_TYPE_CURRENT_NO_AMBIENT_MOTION)
         \o getParameter(parameter, PARAMETER_VALUE_TYPE_TARGET)
         \o <<[i |-> "serializeState", type |-> parameter]>>
         \o saveState_parameters(parameter + 1)

\* saveState(state): the state is the return value
saveState ==
    <<Lock, [i |-> "set_timestamp"]>> \o saveState_parameters(0) \o <<Unlock>>

\* (variant: applies the target velocity and the target position)
loadState_apply_BothTargets(currentPosition, targetPosition, currentVelocity, targetVelocity) ==
    setTargetInternal(PHYSICAL_PARAMETER_POSITION, currentPosition, PHYSICAL_INTERPOLATION_STEP)
    \o setTargetInternal(PHYSICAL_PARAMETER_VELOCITY, currentVelocity,
                         PHYSICAL_INTERPOLATION_STEP)
    \o setTargetInternal(PHYSICAL_PARAMETER_VELOCITY, targetVelocity,
                         PHYSICAL_INTERPOLATION_SMOOTH)
    \o setTargetInternal(PHYSICAL_PARAMETER_POSITION, targetPosition,
                         PHYSICAL_INTERPOLATION_SMOOTH)

\* loadState after the scan: the position and the velocity it collected
loadState_apply(currentPosition, targetPosition, currentVelocity, targetVelocity) ==
    setTargetInternal(PHYSICAL_PARAMETER_POSITION, currentPosition, PHYSICAL_INTERPOLATION_STEP)
    \o setTargetInternal(PHYSICAL_PARAMETER_VELOCITY, currentVelocity,
                         PHYSICAL_INTERPOLATION_STEP)
    \o (IF targetVelocity # kVecZero
        THEN setTargetInternal(PHYSICAL_PARAMETER_VELOCITY, targetVelocity,
                               PHYSICAL_INTERPOLATION_SMOOTH)
        ELSE setTargetInternal(PHYSICAL_PARAMETER_POSITION, targetPosition,
                               PHYSICAL_INTERPOLATION_SMOOTH))

\* loadState, the scan from the first record of `events` onwards, with its locals
RECURSIVE loadState_scan(_, _, _, _, _)
loadState_scan(events, currentPosition, targetPosition, currentVelocity, targetVelocity) ==
    IF events = <<>>
    THEN loadState_apply(currentPosition, targetPosition, currentVelocity, targetVelocity)
    ELSE LET event == Head(events)
             current == getProtoValue(TRUE, event.current_value)
             target == getProtoValue(TRUE, event.target_value)
         IN IF event.type = toProto(PHYSICAL_PARAMETER_POSITION)
            THEN loadState_scan(Tail(events),
                                IF event.has_current_value THEN current ELSE currentPosition,
                                IF event.has_target_value THEN target ELSE targetPosition,
                                currentVelocity, targetVelocity)
            ELSE IF event.type = toProto(PHYSICAL_PARAMETER_VELOCITY)
            THEN loadState_scan(Tail(events), currentPosition, targetPosition,
                                IF event.has_current_value THEN current ELSE currentVelocity,
                                IF event.has_target_value THEN target ELSE targetVelocity)
            ELSE replayEvent(event)
                 \o loadState_scan(Tail(events), currentPosition, targetPosition,
                                   currentVelocity, targetVelocity)

\* (variant: the current position starts at (1, 0, 0))
loadState_PositionStartsAtOne(state) ==
    loadState_scan(state.physical_model, <<1, 0, 0>>, kVecZero, kVecZero, kVecZero)

\* loadState(state)
loadState(state) ==
    loadState_scan(state.physical_model, kVecZero, kVecZero, kVecZero, kVecZero)

\* what a hook of the agent does before it returns: the hooks of the
\* re-entrant agent call a member function on the calling thread
Reentry(agent, hook) ==
    IF agent # ReentrantAgent THEN <<>>
    ELSE CASE hook = "onPhysicalStateChanging" ->
                 setOverride(ANDROID_SENSOR_TEMPERATURE, 1)
           [] hook = "onPhysicalStateStabilized" ->
                 setTarget(PHYSICAL_PARAMETER_TEMPERATURE, 1, PHYSICAL_INTERPOLATION_SMOOTH)
           [] hook = "onTargetStateChanged" ->
                 getSensorValue(ANDROID_SENSOR_TEMPERATURE)

(***************************************************************************)
(* Exec: what one step does to the members and to the locals of the thread *)
(* `me` that runs it.  th.prog holds the steps that follow it.             *)
(***************************************************************************)
Exec(m, th, me, ins) ==
    CASE ins.i = "lock" ->
           [m |-> [m EXCEPT !.mMutex = [owner |-> me, count |-> @.count + 1]], th |-> th]
      [] ins.i = "unlock" ->
           [m |-> [m EXCEPT !.mMutex = IF @.count = 1
                                       THEN [owner |-> 0, count |-> 0]
                                       ELSE [owner |-> @.owner, count |-> @.count - 1]],
            th |-> th]
      [] ins.i = "callback" ->
           LET agent == IF ins.of = "local" THEN th.agent ELSE ins.agent
           IN IF agent # nullptr /\ HasHook(agent, ins.hook)
              THEN [m |-> [m EXCEPT !.calls = Append(@, [agent |-> agent,
                                                         hook |-> ins.hook,
                                                         kind |-> "callback",
                                                         held |-> Held(m, me)])],
                    th |-> [th EXCEPT !.prog = Reentry(agent, ins.hook) \o @]]
              ELSE [m |-> m, th |-> th]
      [] ins.i = "if" ->
           [m |-> m,
            th |-> [th EXCEPT !.prog = (IF th.flag THEN ins.then ELSE ins.else) \o @]]
      [] ins.i = "return" ->
           [m |-> m, th |-> [th EXCEPT !.ret = ins.value]]
      [] ins.i = "stream_put_be32" ->
           [m |-> m, th |-> [th EXCEPT !.ret = Append(@, Be32(ins.value))]]
      [] ins.i = "writeValueToStream" ->
           [m |-> m, th |-> [th EXCEPT !.ret = writeValueToStream(@, ins.isVec3, th.vals[1]),
                                       !.vals = Tail(@)]]
      [] ins.i = "snapshotSave_overrides" ->
           [m |-> m, th |-> [th EXCEPT !.ret = snapshotSave_overrides(m, @, 0, ins.max_sensors)]]
      [] ins.i = "physicalStateChanging_block" -> physicalStateChanging_block(m, th)
      [] ins.i = "physicalStateStabilized_block" -> physicalStateStabilized_block(m, th)
      [] ins.i = "targetStateChanged_block" -> targetStateChanged_block(m, th)
      [] ins.i = "generateEvent" ->
           generateEvent_block(m, th, me, ins.type, ins.mode, ins.value)
      [] ins.i = "setTargetInternal_block" ->
           setTargetInternal_block(m, th, ins.p, ins.value, ins.mode)
      [] ins.i = "setOverride_block" -> setOverride_block(m, th, ins.sensor, ins.value)
      [] ins.i = "getSensorValue_block" -> getSensorValue_block(m, th, ins.sensor)
      [] ins.i = "setCurrentTime_block" ->
           setCurrentTime_block(m, th, ins.time_ns, ins.inertialArrives, ins.ambientArrives)
      [] ins.i = "setPhysicalStateAgent_block" ->
           setPhysicalStateAgent_block(m, th, ins.agent)
      [] ins.i = "setAutomationController_block" ->
           setAutomationController_block(m, th, ins.controller)
      [] ins.i = "getParameter_block" -> getParameter_block(m, th, ins.p, ins.pvt)
      [] ins.i = "getTransform_block" -> getTransform_block(m, th, me)
      [] ins.i = "stopRecordGroundTruth_block" -> stopRecordGroundTruth_block(m, th)
      [] ins.i = "recordGroundTruth_block" -> recordGroundTruth_block(m, th, ins.fp)
      [] ins.i = "set_timestamp" ->
           [m |-> m, th |-> [th EXCEPT !.ret = [physical_model |-> <<>>,
                                                initial_time |-> m.mModelTimeNs]]]
      [] ins.i = "serializeState" ->
           [m |-> m,
            th |-> [th EXCEPT !.ret.physical_model =
                                  Append(@, serializeState(ins.type, th.vals[1], th.vals[2])),
                              !.vals = Tail(Tail(@))]]

\* a whole member function, run by one thread without interruption
RECURSIVE Run(_, _, _)
Run(m, th, me) ==
    IF th.prog = <<>>
    THEN [m |-> m, th |-> th]
    ELSE LET r == Exec(m, [th EXCEPT !.prog = Tail(@)], me, Head(th.prog))
         IN Run(r.m, r.th, me)

(***************************************************************************)
(* Spec: one caller; every member function is one action.                  *)
(***************************************************************************)
Threads == {1, 2}

\* the members after a step or a call become the next state
Commit(m) ==
    /\ \A s \in Sensors : m.mMeasurementId[s] <= MaxId
    /\ mIsPhysicalStateChanging' = m.mIsPhysicalStateChanging
    /\ mUseOverride' = m.mUseOverride
    /\ mMeasurementId' = m.mMeasurementId
    /\ mOverride' = m.mOverride
    /\ mInertialModel' = m.mInertialModel
    /\ mAmbientEnvironment' = m.mAmbientEnvironment
    /\ mAgent' = m.mAgent
    /\ mAutomationController' = m.mAutomationController
    /\ mModelTimeNs' = m.mModelTimeNs
    /\ mGroundTruthStream' = m.mGroundTruthStream
    /\ openFiles' = m.openFiles
    /\ mMutex' = m.mMutex
    /\ calls' = m.calls

\* the caller runs the member function `prog`; `what` names it and its arguments
Call(what, prog) ==
    \E r \in {Run(Members, [IdleThread EXCEPT !.prog = prog], 1)} :
       /\ Commit(r.m)
       /\ last' = [ret |-> r.th.ret, call |-> what]
       /\ UNCHANGED threads

Init ==
    /\ mIsPhysicalStateChanging = InitialMembers.mIsPhysicalStateChanging
    /\ mUseOverride = InitialMembers.mUseOverride
    /\ mMeasurementId = InitialMembers.mMeasurementId
    /\ mOverride = InitialMembers.mOverride
    /\ mInertialModel = InitialMembers.mInertialModel
    /\ mAmbientEnvironment = InitialMembers.mAmbientEnvironment
    /\ mAgent = InitialMembers.mAgent
    /\ mAutomationController = InitialMembers.mAutomationController
    /\ mModelTimeNs = InitialMembers.mModelTimeNs
    /\ mGroundTruthStream = InitialMembers.mGroundTruthStream
    /\ openFiles = InitialMembers.openFiles
    /\ mMutex = InitialMembers.mMutex
    /\ threads = [t \in Threads |-> IdleThread]
    /\ calls = <<>>
    /\ last = [ret |-> "void", call |-> [op |-> "new"]]

\* the caller's inputs: the actions take the sets their arguments are drawn from
SetTarget(params, modes) ==
    \E p \in params : \E value \in ParameterValues(p) : \E mode \in modes :
        Call([p |-> p, value |-> value, mode |-> mode, op |-> "setTarget"],
             setTarget(p, value, mode))

SetOverride(sensors) ==
    \E sensor \in sensors : \E value \in SensorValues(sensor) :
        Call([value |-> value, sensor |-> sensor, op |-> "setOverride"],
             setOverride(sensor, value))

GetSensor(sensors) ==
    \E sensor \in sensors :
        Call([sensor |-> sensor, op |-> "getSensor"], getSensorValue(sensor))

SetCurrentTime(times, arrivals) ==
    \E time_ns \in times : \E inertialArrives, ambientArrives \in arrivals :
        Call([time_ns |-> time_ns, op |-> "setCurrentTime"],
             setCurrentTime(time_ns, inertialArrives, ambientArrives))

SetPhysicalStateAgent(agents) ==
    \E agent \in agents :
        Call([agent |-> agent, op |-> "setPhysicalStateAgent"], setPhysicalStateAgent(agent))

(***************************************************************************)
(* Snapshots.  The streams snapshotLoad is given are written by            *)
(* snapshotSave from a model holding the targets and overrides `data`, by  *)
(* the snapshotSave of a build with shorter lists, or have a count word    *)
(* overwritten.                                                            *)
(***************************************************************************)
Vec3Of(x) == <<x, 0, 0>>

\* targets, override flags and override values, the value of a sensor that is
\* not overridden being zero
SnapshotData ==
    {d \in {[tgt |-> [p \in Parameters |-> IF ParameterIsVec3(p) THEN Vec3Of(t[p]) ELSE t[p]],
             use |-> u,
             ovr |-> [s \in Sensors |-> IF SensorIsVec3(s) THEN Vec3Of(o[s]) ELSE o[s]]] :
               t \in [Parameters -> Floats], u \in [Sensors -> BOOLEAN],
               o \in [Sensors -> Floats]} :
        \A s \in Sensors : d.use[s] \/ d.ovr[s] = ZeroOfSensor(s)}

\* the data with every combination of targets and no override, and with every
\* combination of overrides and all targets one
SnapshotInputs ==
    {d \in SnapshotData :
        \/ \A s \in Sensors : ~d.use[s]
        \/ \A p \in Parameters :
              d.tgt[p] = (IF ParameterIsVec3(p) THEN Vec3Of(1) ELSE 1)}

\* the data in which every value is x and every sensor is overridden or none is
SampleData(x, overridden) ==
    [tgt |-> [p \in Parameters |-> IF ParameterIsVec3(p) THEN Vec3Of(x) ELSE x],
     use |-> [s \in Sensors |-> overridden],
     ovr |-> [s \in Sensors |-> IF ~overridden THEN ZeroOfSensor(s)
                                ELSE IF SensorIsVec3(s) THEN Vec3Of(x) ELSE x]]

\* the data the streams of older builds and the damaged streams are made from
Samples == {SampleData(1, TRUE)}

\* the targets and overrides that members m hold
DataOf(m) ==
    [tgt |-> [p \in Parameters |-> ParameterTarget(m, p)],
     use |-> m.mUseOverride,
     ovr |-> [s \in Sensors |-> IF m.mUseOverride[s] THEN m.mOverride[s]
                                ELSE ZeroOfSensor(s)]]

\* a model that holds `data`
ModelHolding(data) ==
    [InitialMembers EXCEPT
        !.mInertialModel = [p \in InertialParameters |->
                               [cur |-> data.tgt[p], tgt |-> data.tgt[p]]],
        !.mAmbientEnvironment = [p \in AmbientParameters |->
                               [cur |-> data.tgt[p], tgt |-> data.tgt[p]]],
        !.mUseOverride = data.use,
        !.mOverride = data.ovr]

\* the stream a build with the given list lengths saves from a model holding `data`
SavedBy(data, max_parameters, max_sensors) ==
    Run(ModelHolding(data),
        [IdleThread EXCEPT !.prog = snapshotSave_build(<<>>, max_parameters, max_sensors)],
        1).th.ret

\* the streams of this build and of the builds with shorter lists, computed once
SavedStream == [data \in SnapshotData |->
                   SavedBy(data, MAX_PHYSICAL_PARAMETERS, MAX_SENSORS)]
OlderStream == [data \in Samples |->
                   [k \in 0 .. MAX_PHYSICAL_PARAMETERS |->
                       [n \in 0 .. MAX_SENSORS |-> SavedBy(data, k, n)]]]

\* the word at which a stream of this build holds the sensor count
SensorCountAt == 2 + 3 * Cardinality({p \in Parameters : ParameterIsVec3(p)})
                   + Cardinality({p \in Parameters : ~ParameterIsVec3(p)})

\* one more than the build knows, and 0xFFFFFFFF
CountsTooBig(max) == {Be32(max + 1), <<65535, 65535>>}

SnapshotSave ==
    Call([op |-> "snapshotSave"], snapshotSave(<<>>))

\* load what snapshotSave of this build wrote from a model holding `data`
SnapshotLoadSaved(datas) ==
    \E data \in datas :
        LET f == SavedStream[data]
        IN Call([data |-> data, f |-> f, op |-> "snapshotLoad", sensors |-> MAX_SENSORS,
                 from |-> "snapshotSave", parameters |-> MAX_PHYSICAL_PARAMETERS],
                snapshotLoad(f))

\* load what a build with shorter lists wrote
SnapshotLoadOlder(datas) ==
    \E data \in datas : \E k \in 0 .. MAX_PHYSICAL_PARAMETERS : \E n \in 0 .. MAX_SENSORS :
        /\ k < MAX_PHYSICAL_PARAMETERS \/ n < MAX_SENSORS
        /\ LET f == OlderStream[data][k][n]
           IN Call([data |-> data, f |-> f, op |-> "snapshotLoad", sensors |-> n,
                    from |-> "older build", parameters |-> k],
                   snapshotLoad(f))

\* load what a build that knows every sensor and no parameter wrote
SnapshotLoadNoParameters(datas) ==
    \E data \in datas :
        LET f == SavedBy(data, 0, MAX_SENSORS)
        IN Call([data |-> data, f |-> f, op |-> "snapshotLoad", sensors |-> MAX_SENSORS,
                 from |-> "older build", parameters |-> 0],
                snapshotLoad(f))

\* load a stream whose parameter count or sensor count is overwritten
SnapshotLoadBadCount(datas) ==
    \E data \in datas :
        LET saved == SavedStream[data]
        IN \/ \E w \in CountsTooBig(MAX_PHYSICAL_PARAMETERS) :
                LET f == [saved EXCEPT ![1] = w]
                IN Call([data |-> data, f |-> f, op |-> "snapshotLoad",
                         sensors |-> MAX_SENSORS, from |-> "parameter count", parameters |-> w],
                        snapshotLoad(f))
           \/ \E w \in CountsTooBig(MAX_SENSORS) :
                LET f == [saved EXCEPT ![SensorCountAt] = w]
                IN Call([data |-> data, f |-> f, op |-> "snapshotLoad",
                         sensors |-> w, from |-> "sensor count",
                         parameters |-> MAX_PHYSICAL_PARAMETERS],
                        snapshotLoad(f))

(***************************************************************************)
(* Spec: targets, overrides, sensor reads, time updates and the observer.  *)
(* The caller sets one parameter of each leaf model, loads a snapshot that *)
(* overrides every sensor, and does not advance the clock.                 *)
(***************************************************************************)
Next ==
    \/ SetTarget({PHYSICAL_PARAMETER_POSITION, PHYSICAL_PARAMETER_TEMPERATURE}, Interpolations)
    \/ SetOverride(Sensors)
    \/ GetSensor(Sensors)
    \/ SetCurrentTime({mModelTimeNs}, BOOLEAN)
    \/ SetPhysicalStateAgent(Agents \cup {nullptr})
    \/ SnapshotLoadSaved(Samples)

Spec == Init /\ [][Next]_vars

(***************************************************************************)
(* SpecSnapshot: snapshotSave and snapshotLoad on a model whose targets    *)
(* and overrides are those of the snapshots loaded before, between time    *)
(* updates that let it settle.                                             *)
(***************************************************************************)
NextSnapshot ==
    \/ SetCurrentTime({mModelTimeNs}, {TRUE})
    \/ SetPhysicalStateAgent({1})
    \/ SnapshotSave
    \/ SnapshotLoadSaved(SnapshotInputs)
    \/ SnapshotLoadOlder(Samples)
    \/ SnapshotLoadNoParameters({SampleData(1, FALSE)})
    \/ SnapshotLoadBadCount(Samples)

SpecSnapshot == Init /\ [][NextSnapshot]_vars

(***************************************************************************)
(* SpecAutomation: the automation entry points, replayEvent, saveState and *)
(* loadState, with the events and the record lists a caller passes.        *)
(***************************************************************************)
\* a pb::PhysicalModelEvent with the given fields
ProtoEvent(type, has_current_value, current_value, has_target_value, target_value) ==
    [type |-> type,
     has_current_value |-> has_current_value, current_value |-> current_value,
     has_target_value |-> has_target_value, target_value |-> target_value]

PositionEvent == ProtoEvent("POSITION", TRUE, <<1, 0, 0>>, TRUE, <<0, 0, 0>>)
PositionTargetEvent == ProtoEvent("POSITION", FALSE, <<>>, TRUE, <<1, 0, 0>>)
VelocityEvent == ProtoEvent("VELOCITY", TRUE, <<0, 0, 0>>, TRUE, <<1, 0, 0>>)
VelocityCurrentEvent == ProtoEvent("VELOCITY", TRUE, <<1, 0, 0>>, FALSE, <<>>)
TemperatureEvent == ProtoEvent("TEMPERATURE", TRUE, <<1>>, TRUE, <<0>>)
TemperatureTargetEvent == ProtoEvent("TEMPERATURE", FALSE, <<>>, TRUE, <<1>>)
EmptyEvent == ProtoEvent("TEMPERATURE", FALSE, <<>>, FALSE, <<>>)
\* a tag that names no parameter
UnknownEvent == ProtoEvent("UNKNOWN", TRUE, <<1>>, TRUE, <<1>>)
\* payloads of the wrong size: two floats and none for a float, one for a vec3
MalformedTemperatureEvent == ProtoEvent("TEMPERATURE", TRUE, <<1, 1>>, TRUE, <<>>)
MalformedPositionEvent == ProtoEvent("POSITION", TRUE, <<1>>, TRUE, <<1, 0, 0>>)
\* a second position record, which leaves the position where it is
PositionRestEvent == ProtoEvent("POSITION", TRUE, <<0, 0, 0>>, TRUE, <<0, 0, 0>>)

ReplayInputs ==
    {PositionEvent, PositionTargetEvent, VelocityEvent, TemperatureEvent,
     TemperatureTargetEvent, EmptyEvent, UnknownEvent,
     MalformedTemperatureEvent, MalformedPositionEvent}

\* the record lists of the states passed to loadState
LoadInputs ==
    {<<>>, <<PositionEvent>>, <<PositionTargetEvent>>, <<VelocityEvent>>,
     <<VelocityCurrentEvent>>, <<TemperatureEvent>>, <<UnknownEvent>>,
     <<PositionEvent, VelocityEvent>>, <<VelocityEvent, PositionEvent>>,
     <<PositionTargetEvent, VelocityCurrentEvent>>,
     <<PositionEvent, TemperatureEvent>>, <<TemperatureEvent, PositionEvent>>,
     <<PositionEvent, PositionTargetEvent>>, <<VelocityEvent, VelocityCurrentEvent>>,
     <<UnknownEvent, TemperatureTargetEvent>>,
     <<TemperatureEvent, TemperatureTargetEvent>>,
     <<PositionTargetEvent, TemperatureEvent, VelocityEvent>>,
     <<MalformedTemperatureEvent, TemperatureTargetEvent>>,
     <<PositionEvent, MalformedPositionEvent>>,
     <<MalformedPositionEvent, VelocityCurrentEvent>>}

ReplayEvent(events) ==
    \E event \in events :
        Call([event |-> event, op |-> "replayEvent"], replayEvent(event))

SaveState == Call([op |-> "saveState"], saveState)

LoadState(lists) ==
    \E physical_model \in lists :
        \E state \in {[physical_model |-> physical_model, initial_time |-> 0]} :
            Call([state |-> state, op |-> "loadState"], loadState(state))

NextAutomation ==
    \/ ReplayEvent(ReplayInputs)
    \/ SaveState
    \/ LoadState(LoadInputs)
    \/ SetCurrentTime({mModelTimeNs}, {TRUE})
    \/ SetPhysicalStateAgent({1})

SpecAutomation == Init /\ [][NextAutomation]_vars

(***************************************************************************)
(* SpecThreads: two threads call member functions and run them step by     *)
(* step, in any interleaving.  A thread at a Lock step waits while the     *)
(* other thread owns mMutex; calls holds what the last step called.        *)
(***************************************************************************)
StartThread(t, prog) ==
    /\ threads[t].prog = <<>>
    /\ threads' = [threads EXCEPT ![t] = [IdleThread EXCEPT !.prog = prog]]
    /\ calls' = <<>>
    /\ UNCHANGED <<mIsPhysicalStateChanging, mUseOverride, mMeasurementId, mOverride,
                   mInertialModel, mAmbientEnvironment, mAgent, mAutomationController,
                   mModelTimeNs, mGroundTruthStream, openFiles, mMutex, last>>

StepThread(t) ==
    /\ threads[t].prog # <<>>
    /\ Head(threads[t].prog).i = "lock" => mMutex.owner \in {0, t}
    /\ \E r \in {Exec(Members, [threads[t] EXCEPT !.prog = Tail(@)], t,
                       Head(threads[t].prog))} :
          /\ Commit(r.m)
          /\ threads' = [threads EXCEPT ![t] = IF r.th.prog = <<>> THEN IdleThread
                                                ELSE r.th]
    /\ UNCHANGED last

NextThreads ==
    \/ \E t \in Threads : StepThread(t)
    \/ \E t \in Threads :
          StartThread(t, setTarget(PHYSICAL_PARAMETER_TEMPERATURE, 1,
                                   PHYSICAL_INTERPOLATION_STEP))
    \/ \E t \in Threads :
          StartThread(t, setOverride(ANDROID_SENSOR_TEMPERATURE, 1))
    \/ \E t \in Threads : \E time_ns \in 0 .. MaxTime :
          StartThread(t, setCurrentTime(time_ns, TRUE, TRUE))
    \/ \E t \in Threads : StartThread(t, getSensorValue(ANDROID_SENSOR_TEMPERATURE))
    \/ \E t \in Threads : StartThread(t, setPhysicalStateAgent(1))
    \/ \E t \in Threads : \E controller \in {nullptr, 1} :
          StartThread(t, setAutomationController(controller))
    \/ \E t \in Threads : StartThread(t, getTransform)
    \/ \E t \in Threads : StartThread(t, recordGroundTruth(1, 1))
    \/ \E t \in Threads : StartThread(t, stopRecordGroundTruth)

SpecThreads == Init /\ [][NextThreads]_vars

\* SpecIds: two threads and the member functions that reach a measurement id,
\* directly or through setTargetInternal and setOverride
NextIds ==
    \/ \E t \in Threads : StepThread(t)
    \/ \E t \in Threads :
          StartThread(t, setTarget(PHYSICAL_PARAMETER_TEMPERATURE, 1,
                                   PHYSICAL_INTERPOLATION_SMOOTH))
    \/ \E t \in Threads : StartThread(t, setOverride(ANDROID_SENSOR_TEMPERATURE, 1))
    \/ \E t \in Threads : StartThread(t, getSensorValue(ANDROID_SENSOR_TEMPERATURE))
    \/ \E t \in Threads : StartThread(t, setCurrentTime(mModelTimeNs, TRUE, TRUE))
    \/ \E t \in Threads : StartThread(t, setPhysicalStateAgent(1))
    \/ \E t \in Threads : StartThread(t, replayEvent(TemperatureTargetEvent))
    \/ \E t \in Threads :
          StartThread(t, loadState([physical_model |-> <<>>, initial_time |-> 0]))
    \/ \E t \in Threads :
          StartThread(t, snapshotLoad(OlderStream[SampleData(1, TRUE)][0][MAX_SENSORS]))

SpecIds == Init /\ [][NextIds]_vars

(***************************************************************************)
(* SpecLive: two threads, an agent whose hooks call back into the model,   *)
(* and a scheduler that lets a thread take its next step whenever that     *)
(* step is possible again and again.                                       *)
(***************************************************************************)
NextLive ==
    \/ \E t \in Threads : StepThread(t)
    \/ \E t \in Threads :
          StartThread(t, setTarget(PHYSICAL_PARAMETER_TEMPERATURE, 1,
                                   PHYSICAL_INTERPOLATION_SMOOTH))
    \/ \E t \in Threads : StartThread(t, setCurrentTime(mModelTimeNs, TRUE, TRUE))
    \/ \E t \in Threads : StartThread(t, setPhysicalStateAgent(ReentrantAgent))
    \/ \E t \in Threads : StartThread(t, getTransform)

SpecLive == Init /\ [][NextLive]_vars /\ \A t \in Threads : SF_vars(StepThread(t))

\* the members a step reads and the members it writes, in the current state
Touches(ins) ==
    CASE ins.i = "physicalStateChanging_block" ->
           IF mIsPhysicalStateChanging
           THEN [w |-> {}, r |-> {"mIsPhysicalStateChanging"}]
           ELSE [w |-> {"mIsPhysicalStateChanging"},
                 r |-> {"mIsPhysicalStateChanging", "mAgent"}]
      [] ins.i = "physicalStateStabilized_block" ->
           [w |-> {"mIsPhysicalStateChanging", "mMeasurementId"},
            r |-> {"mIsPhysicalStateChanging", "mMeasurementId", "mAgent"}]
      [] ins.i = "targetStateChanged_block" ->
           [w |-> {"mUseOverride"}, r |-> {"mAgent"}]
      [] ins.i = "generateEvent" ->
           [w |-> {},
            r |-> IF mAutomationController # nullptr
                  THEN {"mAutomationController", "mModelTimeNs"}
                  ELSE {"mAutomationController"}]
      [] ins.i = "setTargetInternal_block" ->
           [w |-> {IF ins.p \in InertialParameters THEN "mInertialModel"
                             ELSE "mAmbientEnvironment"}, r |-> {}]
      [] ins.i = "setOverride_block" ->
           [w |-> {"mUseOverride", "mMeasurementId", "mOverride"}, r |-> {"mMeasurementId"}]
      [] ins.i = "getSensorValue_block" ->
           [w |-> {"mMeasurementId"},
            r |-> {"mUseOverride", "mMeasurementId", "mOverride", "mIsPhysicalStateChanging",
                   "mInertialModel", "mAmbientEnvironment"}]
      [] ins.i = "setCurrentTime_block" ->
           [w |-> {"mModelTimeNs", "mInertialModel", "mAmbientEnvironment"},
            r |-> {"mIsPhysicalStateChanging"}]
      [] ins.i = "setPhysicalStateAgent_block" ->
           [w |-> {"mAgent"}, r |-> {"mIsPhysicalStateChanging"}]
      [] ins.i = "setAutomationController_block" ->
           [w |-> {"mAutomationController"}, r |-> {}]
      [] ins.i = "getParameter_block" ->
           [w |-> {}, r |-> {IF ins.p \in InertialParameters THEN "mInertialModel"
                   ELSE "mAmbientEnvironment"}]
      [] ins.i = "snapshotSave_overrides" ->
           [w |-> {}, r |-> {"mUseOverride", "mOverride"}]
      [] ins.i = "getTransform_block" ->
           [w |-> {}, r |-> {"mModelTimeNs", "mGroundTruthStream"}]
      [] ins.i = "stopRecordGroundTruth_block" ->
           [w |-> {"mGroundTruthStream"}, r |-> {}]
      [] ins.i = "recordGroundTruth_block" ->
           [w |-> {"mGroundTruthStream"}, r |-> {"mGroundTruthStream"}]
      [] OTHER -> [w |-> {}, r |-> {}]

\* the members two threads are about to access together, one of them writing
Raced(t1, t2) ==
    IF threads[t1].prog = <<>> \/ threads[t2].prog = <<>>
    THEN {}
    ELSE LET a == Touches(Head(threads[t1].prog))
             b == Touches(Head(threads[t2].prog))
         IN (a.w \cap (b.r \cup b.w)) \cup (b.w \cap a.r)

(***************************************************************************)
(* SpecSteps: one caller, one statement at a time.  StartCall enters a     *)
(* member function and names it in `last`; StepCall runs its next step,    *)
(* and `calls` collects what the function has called so far.               *)
(***************************************************************************)
StartCall(what, prog) ==
    /\ threads[1].prog = <<>>
    /\ threads' = [threads EXCEPT ![1] = [IdleThread EXCEPT !.prog = prog]]
    /\ calls' = <<>>
    /\ last' = [ret |-> "void", call |-> what]
    /\ UNCHANGED <<mIsPhysicalStateChanging, mUseOverride, mMeasurementId, mOverride,
                   mInertialModel, mAmbientEnvironment, mAgent, mAutomationController,
                   mModelTimeNs, mGroundTruthStream, openFiles, mMutex>>

StepCall ==
    /\ threads[1].prog # <<>>
    /\ \E r \in {Exec([Members EXCEPT !.calls = calls],
                      [threads[1] EXCEPT !.prog = Tail(@)], 1, Head(threads[1].prog))} :
          /\ Commit(r.m)
          /\ threads' = [threads EXCEPT ![1] = IF r.th.prog = <<>> THEN IdleThread ELSE r.th]
          /\ last' = IF r.th.prog = <<>> THEN [last EXCEPT !.ret = r.th.ret] ELSE last

\* the caller is inside the member function named in `last`
Running == threads[1].prog # <<>>

NextSteps ==
    \/ StepCall
    \/ \E value \in Floats : \E mode \in Interpolations :
          StartCall([p |-> PHYSICAL_PARAMETER_TEMPERATURE, value |-> value,
                     mode |-> mode, op |-> "setTarget"],
                    setTarget(PHYSICAL_PARAMETER_TEMPERATURE, value, mode))
    \/ StartCall([value |-> 1, sensor |-> ANDROID_SENSOR_TEMPERATURE, op |-> "setOverride"],
                 setOverride(ANDROID_SENSOR_TEMPERATURE, 1))
    \/ StartCall([sensor |-> ANDROID_SENSOR_TEMPERATURE, op |-> "getSensor"],
                 getSensorValue(ANDROID_SENSOR_TEMPERATURE))
    \/ \E time_ns \in 0..MaxTime :
          StartCall([time_ns |-> time_ns, op |-> "setCurrentTime"],
                    setCurrentTime(time_ns, TRUE, TRUE))
    \/ \E agent \in Agents \cup {nullptr} :
          StartCall([agent |-> agent, op |-> "setPhysicalStateAgent"],
                    setPhysicalStateAgent(agent))
    \/ \E controller \in {nullptr, 1} :
          StartCall([controller |-> controller, op |-> "setAutomationController"],
                    setAutomationController(controller))
    \/ StartCall([p |-> PHYSICAL_PARAMETER_TEMPERATURE, op |-> "getParameter"],
                 getParameter(PHYSICAL_PARAMETER_TEMPERATURE, PARAMETER_VALUE_TYPE_TARGET))
    \/ StartCall([op |-> "getTransform"], getTransform)
    \/ \E filename, fp \in {nullptr, 1} :
          StartCall([fp |-> fp, filename |-> filename, op |-> "recordGroundTruth"],
                    recordGroundTruth(filename, fp))
    \/ StartCall([op |-> "stopRecordGroundTruth"], stopRecordGroundTruth)
    \/ StartCall([op |-> "snapshotSave"], snapshotSave(<<>>))
    \/ StartCall([op |-> "saveState"], saveState)
    \/ StartCall([event |-> TemperatureTargetEvent, op |-> "replayEvent"],
                 replayEvent(TemperatureTargetEvent))
    \/ \E physical_model \in {<<>>, <<TemperatureEvent>>,
                             <<PositionEvent, PositionRestEvent>>} :
       \E state \in {[physical_model |-> physical_model, initial_time |-> 0]} :
          StartCall([state |-> state, op |-> "loadState"], loadState(state))
    \/ \E f \in {OlderStream[SampleData(1, TRUE)][0][MAX_SENSORS]} :
          StartCall([f |-> f, op |-> "snapshotLoad"], snapshotLoad(f))

SpecSteps == Init /\ [][NextSteps]_vars

(***************************************************************************)
(* SpecSettle: one caller, one statement at a time, who keeps calling      *)
(* setCurrentTime, and again and again with a time at which both leaf      *)
(* models have arrived.  A call returns: the caller takes the next step of *)
(* the member function it is in.  The caller makes a call that increments  *)
(* a measurement id only while the id leaves room for the increment of the *)
(* next stabilization.                                                     *)
(***************************************************************************)
\* every measurement id can be incremented n times within the bound
Room(n) == \A s \in Sensors : mMeasurementId[s] + n <= MaxId

\* the caller enters a time update at which both leaf models report stable
TimeUpdateStable ==
    \E time_ns \in mModelTimeNs .. MaxTime :
       StartCall([time_ns |-> time_ns, op |-> "setCurrentTime"],
                 setCurrentTime(time_ns, TRUE, TRUE))

NextSettle ==
    \/ StepCall
    \/ TimeUpdateStable
    \/ \E time_ns \in mModelTimeNs .. MaxTime : \E inertialArrives, ambientArrives \in BOOLEAN :
          StartCall([time_ns |-> time_ns, op |-> "setCurrentTime"],
                    setCurrentTime(time_ns, inertialArrives, ambientArrives))
    \/ /\ Room(1)
       /\ \E mode \in Interpolations :
             StartCall([p |-> PHYSICAL_PARAMETER_TEMPERATURE, value |-> 1,
                        mode |-> mode, op |-> "setTarget"],
                       setTarget(PHYSICAL_PARAMETER_TEMPERATURE, 1, mode))
    \/ /\ Room(2)
       /\ StartCall([value |-> 1, sensor |-> ANDROID_SENSOR_TEMPERATURE,
                     op |-> "setOverride"],
                    setOverride(ANDROID_SENSOR_TEMPERATURE, 1))
    \/ /\ Room(1)
       /\ StartCall([event |-> TemperatureTargetEvent, op |-> "replayEvent"],
                    replayEvent(TemperatureTargetEvent))
    \/ \E agent \in Agents \cup {nullptr} :
          StartCall([agent |-> agent, op |-> "setPhysicalStateAgent"],
                    setPhysicalStateAgent(agent))

SpecSettle ==
    Init /\ [][NextSettle]_vars /\ WF_vars(StepCall) /\ SF_vars(TimeUpdateStable)

(***************************************************************************)
(* SpecNotify: two threads and one agent, attached once.  `calls` keeps    *)
(* every call of onPhysicalStateChanging and onPhysicalStateStabilized     *)
(* made so far, in the order in which the hooks were entered.              *)
(***************************************************************************)
IsNotification(c) ==
    c.kind = "callback" /\ c.hook \in {"onPhysicalStateChanging", "onPhysicalStateStabilized"}

Notifications(cs) == SelectSeq(cs, IsNotification)

\* no thread is inside a member function
Quiescent == \A t \in Threads : threads[t].prog = <<>>

StartNotify(t, prog) ==
    /\ threads[t].prog = <<>>
    /\ Len(calls) < MaxLog
    /\ threads' = [threads EXCEPT ![t] = [IdleThread EXCEPT !.prog = prog]]
    /\ UNCHANGED <<mIsPhysicalStateChanging, mUseOverride, mMeasurementId, mOverride,
                   mInertialModel, mAmbientEnvironment, mAgent, mAutomationController,
                   mModelTimeNs, mGroundTruthStream, openFiles, mMutex, calls, last>>

StepNotify(t) ==
    /\ threads[t].prog # <<>>
    /\ Head(threads[t].prog).i = "lock" => mMutex.owner \in {0, t}
    /\ \E r \in {Exec(Members, [threads[t] EXCEPT !.prog = Tail(@)], t,
                       Head(threads[t].prog))} :
          /\ Commit([r.m EXCEPT !.calls = calls \o Notifications(@)])
          /\ threads' = [threads EXCEPT ![t] = IF r.th.prog = <<>> THEN IdleThread
                                                ELSE r.th]
    /\ UNCHANGED last

NextNotify ==
    \/ \E t \in Threads : StepNotify(t)
    \/ \E t \in Threads :
          /\ mAgent = nullptr
          /\ Quiescent
          /\ StartNotify(t, setPhysicalStateAgent(1))
    \/ \E t \in Threads :
          StartNotify(t, setTarget(PHYSICAL_PARAMETER_TEMPERATURE, 1,
                                   PHYSICAL_INTERPOLATION_STEP))
    \/ \E t \in Threads : StartNotify(t, setOverride(ANDROID_SENSOR_TEMPERATURE, 1))
    \/ \E t \in Threads : StartNotify(t, setCurrentTime(mModelTimeNs, TRUE, TRUE))

SpecNotify == Init /\ [][NextNotify]_vars

(***************************************************************************)
(* SpecDetach: thread 2 owns the agents and is the only caller of          *)
(* setPhysicalStateAgent; thread 1 calls the member functions that make    *)
(* the transitions.  calls holds what the last step called.                *)
(***************************************************************************)
NextDetach ==
    \/ \E t \in Threads : StepThread(t)
    \/ \E agent \in Agents \cup {nullptr} : StartThread(2, setPhysicalStateAgent(agent))
    \/ StartThread(1, setTarget(PHYSICAL_PARAMETER_TEMPERATURE, 1,
                                PHYSICAL_INTERPOLATION_STEP))
    \/ StartThread(1, setOverride(ANDROID_SENSOR_TEMPERATURE, 1))
    \/ StartThread(1, setCurrentTime(mModelTimeNs, TRUE, TRUE))

SpecDetach == Init /\ [][NextDetach]_vars

(***************************************************************************)
(* Properties.                                                             *)
(***************************************************************************)
\* how often `hook` was called in a list of external calls
Callbacks(cs, hook) ==
    Cardinality({i \in DOMAIN cs : cs[i].kind = "callback" /\ cs[i].hook = hook})

\* what get<Sensor> would return in the state given by members m
Read(m, sensor) == Run(m, [IdleThread EXCEPT !.prog = getSensorValue(sensor)], 1).th.ret

\* C1: after setOverride(S, v), whatever the state before it, a read of S
\* returns v, without calling the physical getter, and with a measurement id
\* greater than the one S had before the call.
C1_OverrideIsRead ==
    [][last'.call.op = "setOverride" =>
          LET sensor == last'.call.sensor
              got == Read(Members', sensor)
          IN /\ got.value = last'.call.value
             /\ ~got.physical
             /\ got.measurement_id > mMeasurementId[sensor]]_vars

\* a setOverride on a sensor that was overridden before, while the state is changing
C1_Witness ==
    /\ last.call.op = "setOverride"
    /\ mIsPhysicalStateChanging
    /\ mMeasurementId[last.call.sensor] >= 2
    /\ mOverride[last.call.sensor] # ZeroOfSensor(last.call.sensor)

\* C2: when setTarget returns no sensor is overridden and every read calls the
\* physical getter; the flags stay off in every step that is not a setOverride
\* (called directly, or by snapshotLoad for the overrides of its stream).
C2_TargetClearsOverrides ==
    [][/\ last'.call.op = "setTarget" =>
              \A s \in Sensors : ~mUseOverride'[s] /\ Read(Members', s).physical
       /\ ((\A s \in Sensors : ~mUseOverride[s])
             /\ last'.call.op \notin {"setOverride", "snapshotLoad"}) =>
              \A s \in Sensors : ~mUseOverride'[s]]_vars

\* a setTarget on a model whose sensors had both been overridden
C2_Witness ==
    /\ last.call.op = "setTarget"
    /\ \A s \in Sensors : mMeasurementId[s] >= 1 /\ mOverride[s] # ZeroOfSensor(s)
    /\ \A s \in Sensors : ~mUseOverride[s]

\* C3: a call other than an observer attachment delivers onPhysicalStateChanging
\* once if it moves the state from settled to changing (and the attached agent
\* has the hook), and not at all if the state was changing already.
C3_ChangingOncePerTransition ==
    [][last'.call.op # "setPhysicalStateAgent" =>
          Callbacks(calls', "onPhysicalStateChanging") =
              IF /\ ~mIsPhysicalStateChanging
                 /\ mIsPhysicalStateChanging'
                 /\ mAgent # nullptr
                 /\ HasHook(mAgent, "onPhysicalStateChanging")
              THEN 1 ELSE 0]_vars

\* a setTarget with an agent attached that found the state changing and told nobody
C3_Witness ==
    /\ last.call.op = "setTarget"
    /\ mAgent = 1
    /\ mIsPhysicalStateChanging
    /\ Callbacks(calls, "onPhysicalStateChanging") = 0
    /\ Callbacks(calls, "onTargetStateChanged") = 1

\* C4: setCurrentTime settles the state and delivers onPhysicalStateStabilized
\* once exactly when both leaf models are stable at the new time and the state
\* was changing; otherwise the flag is kept and nothing is delivered.
C4_StabilizedIff ==
    [][last'.call.op = "setCurrentTime" =>
          LET stable == /\ LeafIsStable(mInertialModel')
                        /\ LeafIsStable(mAmbientEnvironment')
              settles == stable /\ mIsPhysicalStateChanging
          IN /\ mIsPhysicalStateChanging' = (mIsPhysicalStateChanging /\ ~settles)
             /\ Callbacks(calls', "onPhysicalStateStabilized") =
                    IF settles /\ mAgent # nullptr
                       /\ HasHook(mAgent, "onPhysicalStateStabilized")
                    THEN 1 ELSE 0
             /\ Len(calls') = Callbacks(calls', "onPhysicalStateStabilized")]_vars

\* a time update that settled the state and told the agent
C4_Witness ==
    /\ last.call.op = "setCurrentTime"
    /\ ~mIsPhysicalStateChanging
    /\ calls = <<[agent |-> 1, hook |-> "onPhysicalStateStabilized",
                  kind |-> "callback", held |-> 0]>>

C5_CallbacksOutsideLock ==
    \A i \in DOMAIN calls :
        calls[i].kind \in {"callback", "recordPhysicalModelEvent"} => calls[i].held = 0

\* a thread calls the agent while the other thread is inside a locked block
C5_Witness ==
    /\ calls # <<>>
    /\ calls[1].kind = "callback"
    /\ mMutex.count > 0

\* C6: no two threads are about to access the same member, one of them
\* writing it: every access to the members is made under mMutex.
C6_NoDataRace ==
    \A t1, t2 \in Threads : t1 # t2 => Raced(t1, t2) = {}

\* the calls into the leaf models among a list of calls
LeafCalls(cs) == SelectSeq(cs, LAMBDA c : c.kind = "setTarget")

LeafCall(p, value, mode) == [p |-> p, value |-> value, mode |-> mode, kind |-> "setTarget"]

\* the value the scan of loadState is left with: the one of the last record
\* of the type that has it, zero when there is none
Collected(events, type, current) ==
    LET has == {i \in DOMAIN events :
                   /\ events[i].type = type
                   /\ IF current THEN events[i].has_current_value
                                 ELSE events[i].has_target_value}
        i == CHOOSE j \in has : \A k \in has : k <= j
    IN IF has = {} THEN kVecZero
       ELSE IF current THEN getProtoValue(TRUE, events[i].current_value)
       ELSE getProtoValue(TRUE, events[i].target_value)

\* the leaf updates of the records that are neither position nor velocity, in
\* the order of the list: the current value as a step, then the target value
RECURSIVE Replayed(_)
Replayed(events) ==
    IF events = <<>> THEN <<>>
    ELSE LET e == Head(events)
             known == \E p \in Parameters : ParameterName(p) = e.type
             p == CHOOSE q \in Parameters : ParameterName(q) = e.type
         IN (IF known /\ e.type \notin {"POSITION", "VELOCITY"}
             THEN (IF e.has_current_value
                   THEN <<LeafCall(p, getProtoValue(ParameterIsVec3(p), e.current_value),
                                   PHYSICAL_INTERPOLATION_STEP)>>
                   ELSE <<>>)
                  \o (IF e.has_target_value
                      THEN <<LeafCall(p, getProtoValue(ParameterIsVec3(p), e.target_value),
                                      PHYSICAL_INTERPOLATION_SMOOTH)>>
                      ELSE <<>>)
             ELSE <<>>)
            \o Replayed(Tail(events))

\* C11: the leaf updates of loadState are those of the records that are
\* neither position nor velocity, in list order, followed by exactly three:
\* a step to the collected current position, a step to the collected current
\* velocity, and a smooth target that is the target velocity if that is not
\* zero and the target position otherwise; no position or velocity is applied
\* before the scan has ended.
C11_LoadStateOrder ==
    [][last'.call.op = "loadState" =>
          LET events == last'.call.state.physical_model
              targetVelocity == Collected(events, "VELOCITY", FALSE)
          IN LeafCalls(calls') =
                Replayed(events)
                \o <<LeafCall(PHYSICAL_PARAMETER_POSITION,
                              Collected(events, "POSITION", TRUE),
                              PHYSICAL_INTERPOLATION_STEP),
                     LeafCall(PHYSICAL_PARAMETER_VELOCITY,
                              Collected(events, "VELOCITY", TRUE),
                              PHYSICAL_INTERPOLATION_STEP),
                     IF targetVelocity # kVecZero
                     THEN LeafCall(PHYSICAL_PARAMETER_VELOCITY, targetVelocity,
                                   PHYSICAL_INTERPOLATION_SMOOTH)
                     ELSE LeafCall(PHYSICAL_PARAMETER_POSITION,
                                   Collected(events, "POSITION", FALSE),
                                   PHYSICAL_INTERPOLATION_SMOOTH)>>]_vars

\* a state loaded whose position record comes first and whose target velocity
\* is not zero: the temperature was applied first, the target position never
C11_Witness ==
    /\ last.call.op = "loadState"
    /\ last.call.state.physical_model = <<PositionTargetEvent, TemperatureEvent, VelocityEvent>>
    /\ Len(LeafCalls(calls)) = 5
    /\ LeafCalls(calls)[1].p = PHYSICAL_PARAMETER_TEMPERATURE
    /\ LeafCalls(calls)[5] = LeafCall(PHYSICAL_PARAMETER_VELOCITY, <<1, 0, 0>>,
                                      PHYSICAL_INTERPOLATION_SMOOTH)
    /\ mInertialModel[PHYSICAL_PARAMETER_POSITION].tgt = kVecZero

\* C12: replayEvent of an event whose tag names no parameter changes nothing
\* and calls nobody; of any other event it does what setting the current
\* value as a step and then the target value as a smooth target does, each
\* through setTargetInternal, so that a parameter given both ends with the
\* event's current value as its current and the event's target as its target.
C12_ReplayEvent ==
    [][last'.call.op = "replayEvent" =>
          LET e == last'.call.event
              known == \E p \in Parameters : ParameterName(p) = e.type
              p == CHOOSE q \in Parameters : ParameterName(q) = e.type
              current == getProtoValue(ParameterIsVec3(p), e.current_value)
              target == getProtoValue(ParameterIsVec3(p), e.target_value)
              r == Run(Members, [IdleThread EXCEPT !.prog =
                         (IF e.has_current_value
                          THEN setTargetInternal(p, current, PHYSICAL_INTERPOLATION_STEP)
                          ELSE <<>>)
                         \o (IF e.has_target_value
                             THEN setTargetInternal(p, target, PHYSICAL_INTERPOLATION_SMOOTH)
                             ELSE <<>>)], 1)
          IN IF ~known
             THEN Members' = Members /\ calls' = <<>>
             ELSE /\ Members' = [r.m EXCEPT !.calls = <<>>]
                  /\ calls' = r.m.calls
                  /\ (e.has_current_value /\ e.has_target_value) =>
                        /\ ParameterCurrent(Members', p) = current
                        /\ ParameterTarget(Members', p) = target]_vars

\* an event with both values replayed on a settled model that has an agent
C12_Witness ==
    /\ last.call.op = "replayEvent"
    /\ last.call.event = TemperatureEvent
    /\ mAmbientEnvironment[PHYSICAL_PARAMETER_TEMPERATURE] = [cur |-> 1, tgt |-> 0]
    /\ Len(LeafCalls(calls)) = 2
    /\ Callbacks(calls, "onPhysicalStateChanging") = 1
    /\ Callbacks(calls, "onTargetStateChanged") = 2


\* the events recorded among a list of calls
EventCalls(cs) == SelectSeq(cs, LAMBDA c : c.kind = "recordPhysicalModelEvent")

\* where a call of setTarget comes in its order of effects: the event, the
\* 'changing' hook, the leaf setter, the 'target changed' hook
Rank(c) ==
    CASE c.kind = "recordPhysicalModelEvent" -> 1
      [] c.kind = "callback" /\ c.hook = "onPhysicalStateChanging" -> 2
      [] c.kind = "setTarget" -> 3
      [] c.kind = "callback" /\ c.hook = "onTargetStateChanged" -> 4
      [] OTHER -> 5

\* C13: within setTarget what is called comes in the order event, 'changing'
\* hook, leaf setter, 'target changed' hook, each at most once; the state
\* starts changing only after the event went to an attached controller, the
\* leaf receives the target only when the state is changing, the override
\* flags are cleared only after the leaf received it and are clear when
\* 'target changed' is called; when setTarget returns the leaf was set once, a
\* controller got one event and an agent one 'target changed'.
C13_SetTargetOrder ==
    [][last'.call.op = "setTarget" =>
          /\ \A i, j \in DOMAIN calls' : i < j => Rank(calls'[i]) < Rank(calls'[j])
          /\ \A i \in DOMAIN calls' : Rank(calls'[i]) <= 4
          /\ mIsPhysicalStateChanging' # mIsPhysicalStateChanging =>
                (mAutomationController # nullptr => Len(EventCalls(calls)) = 1)
          /\ Len(LeafCalls(calls')) > Len(LeafCalls(calls)) =>
                /\ mIsPhysicalStateChanging
                /\ ParameterTarget(Members', last'.call.p) = last'.call.value
          /\ mUseOverride' # mUseOverride => Len(LeafCalls(calls)) = 1
          /\ Callbacks(calls', "onTargetStateChanged") > Callbacks(calls, "onTargetStateChanged")
                => \A s \in Sensors : ~mUseOverride[s]
          /\ (Running /\ ~Running') =>
                /\ Len(LeafCalls(calls')) = 1
                /\ \A s \in Sensors : ~mUseOverride'[s]
                /\ Len(EventCalls(calls')) = IF mAutomationController # nullptr THEN 1 ELSE 0
                /\ Callbacks(calls', "onTargetStateChanged") =
                      IF mAgent # nullptr THEN 1 ELSE 0]_vars

\* setTarget has returned on a model that was settled, with a controller and
\* an agent: all four effects happened
C13_Witness ==
    /\ last.call.op = "setTarget"
    /\ ~Running
    /\ Len(calls) = 4
    /\ calls[1].kind = "recordPhysicalModelEvent"
    /\ calls[2].kind = "callback" /\ calls[2].hook = "onPhysicalStateChanging"
    /\ calls[3].kind = "setTarget"
    /\ calls[4].kind = "callback" /\ calls[4].hook = "onTargetStateChanged"

\* C14: setTarget(P, v, mode) with a controller attached records exactly one
\* event, of type P, at the model time, which is the time of the last
\* setCurrentTime, with v as its target value only when smooth and as its
\* current value only when step; without a controller it records nothing, and
\* the members, the other calls and the return value are the same as with one.
C14_OneEventPerSetTarget ==
    [][/\ mModelTimeNs' # mModelTimeNs =>
             last'.call.op = "setCurrentTime" /\ mModelTimeNs' = last'.call.time_ns
       /\ (last'.call.op = "setTarget" /\ Running /\ ~Running') =>
             LET c == last'.call
                 smooth == c.mode = PHYSICAL_INTERPOLATION_SMOOTH
             IN EventCalls(calls') =
                   IF mAutomationController = nullptr THEN <<>>
                   ELSE <<[kind |-> "recordPhysicalModelEvent",
                           time |-> mModelTimeNs,
                           held |-> 0,
                           event |-> ProtoEvent(ParameterName(c.p),
                                                ~smooth, IF smooth THEN <<>> ELSE <<c.value>>,
                                                smooth, IF smooth THEN <<c.value>> ELSE <<>>)]>>
       /\ (last'.call.op = "setTarget" /\ ~Running /\ Running') =>
             LET th == threads'[1]
                 with == Run([Members EXCEPT !.mAutomationController = 1], th, 1)
                 without == Run([Members EXCEPT !.mAutomationController = nullptr], th, 1)
             IN /\ without.th = with.th
                /\ without.m = [with.m EXCEPT
                                   !.mAutomationController = nullptr,
                                   !.calls = SelectSeq(@, LAMBDA x :
                                                x.kind # "recordPhysicalModelEvent")]
                /\ EventCalls(without.m.calls) = <<>>]_vars

\* a step target was set at time 1 with a controller attached
C14_Witness ==
    /\ last.call.op = "setTarget"
    /\ last.call.mode = PHYSICAL_INTERPOLATION_STEP
    /\ ~Running
    /\ mModelTimeNs = 1
    /\ Len(EventCalls(calls)) = 1
    /\ EventCalls(calls)[1].time = 1
    /\ EventCalls(calls)[1].event.has_current_value
    /\ ~EventCalls(calls)[1].event.has_target_value

\* the hooks, in order, that were called in a list of calls
Hooks_called(cs) ==
    LET cb == SelectSeq(cs, LAMBDA c : c.kind = "callback")
    IN [i \in DOMAIN cb |-> cb[i].hook]

\* C15: setPhysicalStateAgent(agent) with a non-null agent calls, of the hooks
\* the agent has, 'changing' and 'target changed' when the state is changing
\* and 'changing', 'stabilized' and 'target changed' when it is settled, in
\* that order, each on the new agent and outside the lock; with a null agent it
\* calls nothing; the agent is stored before any hook is called, and the
\* state's flag is not changed.
C15_AgentAttach ==
    [][last'.call.op = "setPhysicalStateAgent" =>
          LET agent == last'.call.agent
              expected == IF agent = nullptr THEN <<>>
                          ELSE IF mIsPhysicalStateChanging
                          THEN <<"onPhysicalStateChanging", "onTargetStateChanged">>
                          ELSE <<"onPhysicalStateChanging", "onPhysicalStateStabilized",
                                 "onTargetStateChanged">>
          IN /\ mIsPhysicalStateChanging' = mIsPhysicalStateChanging
             /\ Len(calls') > Len(calls) => mAgent = agent
             /\ \A i \in DOMAIN calls' :
                   calls'[i].kind = "callback" /\ calls'[i].agent = agent /\ calls'[i].held = 0
             /\ (Running /\ ~Running') =>
                   /\ mAgent' = agent
                   /\ Hooks_called(calls') =
                         SelectSeq(expected, LAMBDA h : HasHook(agent, h))]_vars

\* an agent was attached to a settled model and got its three hooks called
C15_Witness ==
    /\ last.call.op = "setPhysicalStateAgent"
    /\ ~Running
    /\ ~mIsPhysicalStateChanging
    /\ mAgent = 1
    /\ Hooks_called(calls) = <<"onPhysicalStateChanging", "onPhysicalStateStabilized",
                               "onTargetStateChanged">>


\* C16: no step of any member function, in any interleaving of two threads,
\* makes the measurement id of a sensor smaller.
C16_IdNeverDecreases ==
    [][\A s \in Sensors : mMeasurementId'[s] >= mMeasurementId[s]]_vars


\* two threads are inside member functions and an id has been incremented twice
C16_Witness ==
    /\ threads[1].prog # <<>>
    /\ threads[2].prog # <<>>
    /\ mMeasurementId[ANDROID_SENSOR_TEMPERATURE] >= 2
    /\ mMeasurementId[ANDROID_SENSOR_ACCELERATION] >= 1

\* C17: get<Sensor> of an overridden sensor returns the override value and the
\* stored id and changes no id, also while the state is changing; of a sensor
\* that is not overridden while the state is changing it increments the
\* sensor's id and returns the new id, so that the next read returns one more;
\* of a sensor that is not overridden while the state is settled it returns
\* the stored id and changes no id.
C17_GetSensorId ==
    [][last'.call.op = "getSensor" =>
          LET s == last'.call.sensor
              ret == last'.ret
          IN IF mUseOverride[s]
             THEN /\ ret.value = mOverride[s]
                  /\ ret.measurement_id = mMeasurementId[s]
                  /\ mMeasurementId' = mMeasurementId
             ELSE IF mIsPhysicalStateChanging
             THEN /\ mMeasurementId' = [mMeasurementId EXCEPT ![s] = @ + 1]
                  /\ ret.measurement_id = mMeasurementId[s] + 1
                  /\ Read(Members', s).measurement_id = ret.measurement_id + 1
             ELSE /\ ret.measurement_id = mMeasurementId[s]
                  /\ mMeasurementId' = mMeasurementId]_vars

\* an overridden sensor was read while the state was changing
C17_Witness ==
    /\ last.call.op = "getSensor"
    /\ mUseOverride[last.call.sensor]
    /\ mIsPhysicalStateChanging
    /\ ~last.ret.physical
    /\ last.ret.measurement_id = mMeasurementId[last.call.sensor]
    /\ last.ret.measurement_id >= 1

\* C18: when the state goes from changing to settled the id of every sensor,
\* overridden or not, is incremented by exactly one; no id ever decreases and
\* no read reports more than the stored id, so a read after the state settled
\* reports more than every read since the target was set.
C18_StabilizedBumpsAll ==
    [][/\ \A s \in Sensors : mMeasurementId'[s] >= mMeasurementId[s]
       /\ last'.call.op = "getSensor" =>
             last'.ret.measurement_id <= mMeasurementId'[last'.call.sensor]
       /\ (mIsPhysicalStateChanging /\ ~mIsPhysicalStateChanging') =>
             \A s \in Sensors :
                /\ mMeasurementId'[s] = mMeasurementId[s] + 1
                /\ Read(Members', s).measurement_id = mMeasurementId[s] + 1]_vars

\* the state settled while the temperature sensor was overridden
C18_Witness ==
    /\ last.call.op = "setCurrentTime"
    /\ ~mIsPhysicalStateChanging
    /\ mUseOverride[ANDROID_SENSOR_TEMPERATURE]
    /\ mMeasurementId[ANDROID_SENSOR_TEMPERATURE] = 2
    /\ mMeasurementId[ANDROID_SENSOR_ACCELERATION] = 1


\* the member functions that set a target: setTarget<X> and those that call
\* setTargetInternal<X>
TargetSetOperations == {"setTarget", "replayEvent", "loadState", "snapshotLoad"}

\* C19 as stated: mIsPhysicalStateChanging changes only inside setCurrentTime
\* or an operation that sets a target.
C19_FlagOnlyTimeOrTarget ==
    [][mIsPhysicalStateChanging' # mIsPhysicalStateChanging =>
          last'.call.op \in {"setCurrentTime"} \cup TargetSetOperations]_vars

\* C19: mIsPhysicalStateChanging becomes false only inside setCurrentTime and
\* becomes true only inside an operation that sets a target or inside
\* setOverride; get<Sensor>, getParameter, getTransform, setPhysicalStateAgent,
\* setAutomationController, snapshotSave, saveState, recordGroundTruth and
\* stopRecordGroundTruth never change it.
C19_FlagOnlyTimeTargetOrOverride ==
    [][/\ (mIsPhysicalStateChanging /\ ~mIsPhysicalStateChanging') =>
             last'.call.op = "setCurrentTime"
       /\ (~mIsPhysicalStateChanging /\ mIsPhysicalStateChanging') =>
             last'.call.op \in TargetSetOperations \cup {"setOverride"}]_vars

\* setOverride has returned on a model that was settled: the state is changing
\* and the agent was told
C19_Witness ==
    /\ last.call.op = "setOverride"
    /\ ~Running
    /\ mIsPhysicalStateChanging
    /\ Callbacks(calls, "onPhysicalStateChanging") = 1


\* the calls of fopen, and of fprintf, among a list of calls
FopenCalls(cs) == SelectSeq(cs, LAMBDA c : c.kind = "fopen")
FprintfCalls(cs) == SelectSeq(cs, LAMBDA c : c.kind = "fprintf")

\* C20: at most one FILE is open at any time; recordGroundTruth calls fopen
\* only when none is open; when stopRecordGroundTruth returns none is open and
\* no stream is held, and a second call changes nothing; getTransform calls
\* fprintf exactly once when a FILE is open and not at all when none is.
C20_RecordingLifecycle ==
    [][/\ openFiles' <= 1
       /\ Len(FopenCalls(calls')) > Len(FopenCalls(calls)) => openFiles = 0
       /\ (last'.call.op = "stopRecordGroundTruth" /\ Running /\ ~Running') =>
             /\ openFiles' = 0
             /\ mGroundTruthStream' = NoStream
             /\ Run(Members', [IdleThread EXCEPT !.prog = stopRecordGroundTruth], 1).m
                   = Members'
       /\ (last'.call.op = "getTransform" /\ Running /\ ~Running') =>
             Len(FprintfCalls(calls')) = openFiles]_vars

\* C21: when fopen fails, recordGroundTruth returns an error and holds no
\* stream afterwards, and a getTransform made while no FILE is open calls
\* fprintf not at all.
C21_OpenFailureDisablesRecording ==
    [][/\ (/\ last'.call.op = "recordGroundTruth"
           /\ last'.call.filename # nullptr
           /\ last'.call.fp = nullptr
           /\ Running /\ ~Running') =>
             /\ last'.ret = -1
             /\ mGroundTruthStream' = NoStream
       /\ (last'.call.op = "getTransform" /\ openFiles = 0 /\ Running /\ ~Running') =>
             FprintfCalls(calls') = <<>>]_vars

\* the reads of the leaf models among a list of calls
GetterCalls(cs) == SelectSeq(cs, LAMBDA c : c.kind = "getParameter")

\* the reads saveState makes from parameter p onwards
RECURSIVE SaveStateReads(_)
SaveStateReads(p) ==
    IF p >= MAX_PHYSICAL_PARAMETERS THEN <<>>
    ELSE <<[p |-> p, kind |-> "getParameter",
            pvt |-> PARAMETER_VALUE_TYPE_CURRENT_NO_AMBIENT_MOTION],
           [p |-> p, kind |-> "getParameter", pvt |-> PARAMETER_VALUE_TYPE_TARGET]>>
         \o SaveStateReads(p + 1)

\* C22: the state saveState returns holds the model time as its initial time
\* and one record per parameter, in enum order, tagged with the parameter and
\* carrying the value read as current-without-ambient-motion as its current
\* value and the target as its target value; it is the same whatever the
\* overrides are; no statement of saveState changes a member other than the
\* mutex, which is free again at the end, and nothing is called but the
\* getters of the leaf models.
C22_SaveState ==
    [][last'.call.op = "saveState" =>
          /\ [Members' EXCEPT !.mMutex = mMutex] = Members
          /\ \A i \in DOMAIN calls' : calls'[i].kind = "getParameter"
          /\ (Running /\ ~Running') =>
                LET state == last'.ret
                    clear == [Members EXCEPT !.mUseOverride = [s \in Sensors |-> FALSE],
                                             !.mOverride = [s \in Sensors |-> ZeroOfSensor(s)],
                                             !.mMutex = [owner |-> 0, count |-> 0]]
                IN /\ DOMAIN state = {"physical_model", "initial_time"}
                   /\ state.initial_time = mModelTimeNs
                   /\ Len(state.physical_model) = MAX_PHYSICAL_PARAMETERS
                   /\ \A p \in Parameters :
                         state.physical_model[p + 1] =
                            ProtoEvent(ParameterName(p),
                                       TRUE, ProtoData(ParameterIsVec3(p),
                                                       ParameterCurrent(Members, p)),
                                       TRUE, ProtoData(ParameterIsVec3(p),
                                                       ParameterTarget(Members, p)))
                   /\ GetterCalls(calls') = SaveStateReads(0)
                   /\ mMutex' = [owner |-> 0, count |-> 0]
                   /\ state = Run(clear, [IdleThread EXCEPT !.prog = saveState], 1).th.ret]_vars

\* saveState has returned at time 1 on a changing model with an agent, an
\* overridden sensor and a temperature on its way to its target
C22_Witness ==
    /\ last.call.op = "saveState"
    /\ ~Running
    /\ mModelTimeNs = 1
    /\ mAgent = 1
    /\ mIsPhysicalStateChanging
    /\ mUseOverride[ANDROID_SENSOR_TEMPERATURE]
    /\ last.ret.initial_time = 1
    /\ last.ret.physical_model[PHYSICAL_PARAMETER_TEMPERATURE + 1].current_value = <<0>>
    /\ last.ret.physical_model[PHYSICAL_PARAMETER_TEMPERATURE + 1].target_value = <<1>>

\* the members with the agent and the controller detached
Detached(m) == [m EXCEPT !.mAgent = nullptr, !.mAutomationController = nullptr]

\* what the caller's next statement does when no agent and no controller is
\* attached and none was read into a local before
ExecDetached ==
    Exec(Detached(Members), [threads[1] EXCEPT !.agent = nullptr, !.prog = Tail(@)], 1,
         Head(threads[1].prog))

\* C23: with no agent and no controller attached, every statement of every
\* member function (other than the two that attach them) is defined, fails no
\* assertion and calls neither; with any agent and with or without a
\* controller the same statement leaves the same members (flag, override
\* table, measurement ids, leaf models, time, stream, mutex), the same
\* statements to follow and the same return value, and makes the same calls
\* apart from hooks and events; a hook the agent leaves null is never called.
C23_NullAgentAndController ==
    [][/\ \A i \in DOMAIN calls' :
             calls'[i].kind = "callback" => HasHook(calls'[i].agent, calls'[i].hook)
       /\ (/\ Running
           /\ last.call.op \notin {"setPhysicalStateAgent", "setAutomationController"}) =>
             \A r \in {ExecDetached} :
                /\ [r.m EXCEPT !.calls = <<>>] = Detached(Members')
                /\ r.th.prog = threads'[1].prog
                /\ Running' => [r.th EXCEPT !.agent = nullptr]
                                  = [threads'[1] EXCEPT !.agent = nullptr]
                /\ ~Running' => r.th.ret = last'.ret
                /\ \A i \in DOMAIN r.m.calls :
                       r.m.calls[i].kind \notin {"callback", "recordPhysicalModelEvent",
                                                 "assert"}
                /\ r.m.calls = SelectSeq(SubSeq(calls', Len(calls) + 1, Len(calls')),
                                         LAMBDA c : c.kind \notin {"callback",
                                                                   "recordPhysicalModelEvent"})]_vars

\* setTarget has returned on a model without agent and controller whose
\* temperature sensor had been overridden: the state is changing, the
\* override is off, and the only call was the leaf model's setter
C23_Witness ==
    /\ last.call.op = "setTarget"
    /\ ~Running
    /\ mAgent = nullptr
    /\ mAutomationController = nullptr
    /\ mIsPhysicalStateChanging
    /\ mMeasurementId[ANDROID_SENSOR_TEMPERATURE] >= 1
    /\ ~mUseOverride[ANDROID_SENSOR_TEMPERATURE]
    /\ Len(calls) = 1
    /\ calls[1].kind = "setTarget"

\* thread t is at a lock statement while another thread owns mMutex
Waiting(t) ==
    /\ threads[t].prog # <<>>
    /\ Head(threads[t].prog).i = "lock"
    /\ mMutex.owner \notin {0, t}

\* a measurement id has reached the bound of the model
IdsAtBound == \E s \in Sensors : mMeasurementId[s] = MaxId

C25_TimeNeverDecreases ==
    [][mModelTimeNs' >= mModelTimeNs]_vars

\* C25: mModelTimeNs changes only inside setCurrentTime and is then the time
\* the caller passed; so it does not decrease in a step unless that step is
\* inside a setCurrentTime whose argument is smaller than the stored time.
C25_TimeFollowsCaller ==
    [][/\ mModelTimeNs' # mModelTimeNs =>
             last'.call.op = "setCurrentTime" /\ mModelTimeNs' = last'.call.time_ns
       /\ (last'.call.op = "setCurrentTime" => last'.call.time_ns >= mModelTimeNs) =>
             mModelTimeNs' >= mModelTimeNs]_vars

\* setCurrentTime(1) has returned on a model with a controller: the time is
\* 1 and the state has settled
C25_Witness ==
    /\ last.call.op = "setCurrentTime"
    /\ last.call.time_ns = 1
    /\ ~Running
    /\ mModelTimeNs = 1
    /\ mAutomationController # nullptr
    /\ mIsPhysicalStateChanging = FALSE
    /\ mMeasurementId[ANDROID_SENSOR_TEMPERATURE] = 1

\* the leaf updates snapshotLoad makes for the first k parameters of `data`
LoadedTargets(data, k) ==
    [i \in 1 .. k |-> LeafCall(i - 1, data.tgt[i - 1], PHYSICAL_INTERPOLATION_STEP)]

WellFormed(isVec3, data) == Len(data) = WordsOf(isVec3)

\* an event of a known parameter that carries a payload of the wrong size
Malformed(e) ==
    /\ fromProto(e.type) # MAX_PHYSICAL_PARAMETERS
    /\ \/ e.has_current_value
             /\ ~WellFormed(ParameterIsVec3(fromProto(e.type)), e.current_value)
       \/ e.has_target_value
             /\ ~WellFormed(ParameterIsVec3(fromProto(e.type)), e.target_value)

\* the event with every payload of the wrong size replaced by zero
Repaired(e) ==
    IF ~Malformed(e) THEN e
    ELSE LET isVec3 == ParameterIsVec3(fromProto(e.type))
             zero == ProtoData(isVec3, ZeroOfParameter(fromProto(e.type)))
         IN [e EXCEPT !.current_value =
                         IF e.has_current_value /\ ~WellFormed(isVec3, @) THEN zero ELSE @,
                      !.target_value =
                         IF e.has_target_value /\ ~WellFormed(isVec3, @) THEN zero ELSE @]

\* C27: replayEvent of an event with a payload of the wrong size, and
\* loadState of a list that holds such events, do exactly what they do, to
\* the members and in calls, for the same event or list with zero in the
\* place of every such payload: the zero is handed to the leaf setter like
\* any value, and the records after it are processed.
C27_MalformedPayloadIsZero ==
    [][/\ (last'.call.op = "replayEvent" /\ Malformed(last'.call.event)) =>
             LET e == last'.call.event
                 p == fromProto(e.type)
             IN \A r \in {Run(Members, [IdleThread EXCEPT !.prog = replayEvent(Repaired(e))],
                              1)} :
                   /\ Members' = [r.m EXCEPT !.calls = <<>>]
                   /\ calls' = r.m.calls
                   /\ Len(LeafCalls(calls')) = (IF e.has_current_value THEN 1 ELSE 0)
                                                + (IF e.has_target_value THEN 1 ELSE 0)
                   /\ (e.has_current_value
                         /\ ~WellFormed(ParameterIsVec3(p), e.current_value)) =>
                         LeafCalls(calls')[1] = LeafCall(p, ZeroOfParameter(p),
                                                         PHYSICAL_INTERPOLATION_STEP)
       /\ (/\ last'.call.op = "loadState"
           /\ \E i \in DOMAIN last'.call.state.physical_model :
                  Malformed(last'.call.state.physical_model[i])) =>
             LET events == last'.call.state.physical_model
                 repaired == [i \in DOMAIN events |-> Repaired(events[i])]
             IN \A r \in {Run(Members,
                              [IdleThread EXCEPT !.prog =
                                  loadState([last'.call.state EXCEPT
                                                !.physical_model = repaired])], 1)} :
                   /\ Members' = [r.m EXCEPT !.calls = <<>>]
                   /\ calls' = r.m.calls
                   /\ Len(LeafCalls(calls')) >= 3]_vars

\* a state was loaded whose first record has a temperature of two floats and
\* an empty target: the temperature was set to zero twice and then to the
\* target of the record after it
C27_Witness ==
    /\ last.call.op = "loadState"
    /\ last.call.state.physical_model = <<MalformedTemperatureEvent, TemperatureTargetEvent>>
    /\ Len(LeafCalls(calls)) = 6
    /\ LeafCalls(calls)[1] = LeafCall(PHYSICAL_PARAMETER_TEMPERATURE, 0,
                                      PHYSICAL_INTERPOLATION_STEP)
    /\ LeafCalls(calls)[2] = LeafCall(PHYSICAL_PARAMETER_TEMPERATURE, 0,
                                      PHYSICAL_INTERPOLATION_SMOOTH)
    /\ LeafCalls(calls)[3] = LeafCall(PHYSICAL_PARAMETER_TEMPERATURE, 1,
                                      PHYSICAL_INTERPOLATION_SMOOTH)
    /\ mAmbientEnvironment[PHYSICAL_PARAMETER_TEMPERATURE] = [cur |-> 0, tgt |-> 1]
    /\ mAgent = 1

\* the member functions after which the state is changing: those that set a
\* target, and setOverride
ChangeOperations == TargetSetOperations \cup {"setOverride"}

\* the last call has settled the state and told the agent, if one with the
\* hook is attached
SettledAndTold ==
    /\ ~mIsPhysicalStateChanging
    /\ last.call.op = "setCurrentTime"
    /\ Callbacks(calls, "onPhysicalStateStabilized") =
          IF mAgent # nullptr /\ HasHook(mAgent, "onPhysicalStateStabilized") THEN 1 ELSE 0

\* C28: when the state is changing and the caller's last call set no target
\* and no override, then, setCurrentTime being called again and again with
\* both leaf models stable, either the caller sets a target or an override
\* again, or a setCurrentTime settles the state and calls
\* onPhysicalStateStabilized of the attached agent.
C28_EventuallySettled ==
    (mIsPhysicalStateChanging /\ last.call.op \notin ChangeOperations)
        ~> (last.call.op \in ChangeOperations \/ SettledAndTold)

\* the state is changing with an agent attached, a time update has passed
\* at which the temperature had not arrived, and the ids leave room
C28_Witness ==
    /\ mIsPhysicalStateChanging
    /\ last.call.op = "setCurrentTime"
    /\ mAgent = 1
    /\ ~LeafIsStable(mAmbientEnvironment)
    /\ mModelTimeNs = 1
    /\ Room(1)

\* the step just taken ran physicalStateStabilized with the state not changing
AssertFailed ==
    \E n \in 1 .. Len(calls) :
       calls[n].kind = "assert" /\ calls[n].what = "mIsPhysicalStateChanging"

\* C29: whatever the threads do at the same time, a thread that enters
\* physicalStateStabilized finds the state changing: the assert at its start
\* holds, so that one transition to settled increments the ids once and
\* calls onPhysicalStateStabilized once.
C29_StabilizeDecisionStillValid == ~AssertFailed

\* a leaf model holds a target it has not arrived at
TargetPending == ~LeafIsStable(mInertialModel) \/ ~LeafIsStable(mAmbientEnvironment)

\* C30: in every interleaving of the threads, while a leaf model holds a
\* target it has not arrived at, mIsPhysicalStateChanging is true: the state
\* is never settled with a target pending.
C30_PendingTargetIsChanging == TargetPending => mIsPhysicalStateChanging

\* C31: the calls of onPhysicalStateChanging and onPhysicalStateStabilized
\* made to the attached agent alternate, and when no thread is inside a
\* member function the last of them agrees with mIsPhysicalStateChanging,
\* whichever threads made the transitions.
C31_NotificationsInOrder ==
    /\ \A n \in 1 .. Len(calls) - 1 : calls[n].hook # calls[n + 1].hook
    /\ (Quiescent /\ calls # <<>>)
          => ((calls[Len(calls)].hook = "onPhysicalStateChanging")
                 = mIsPhysicalStateChanging)

\* C32: once the setPhysicalStateAgent that replaced or removed an agent has
\* returned (thread 2, the only caller of it, is in no member function), no
\* step of any thread calls a hook of an agent other than the attached one.
C32_NoCallbackAfterDetach ==
    threads[2].prog = <<>>
        => \A n \in 1 .. Len(calls) :
              calls[n].kind = "callback" => calls[n].agent = mAgent

\* C33: whatever controller is attached, recordPhysicalModelEvent is called
\* only inside setTarget: replayEvent, loadState, snapshotLoad and
\* setOverride hand nothing to the controller.
C33_OnlySetTargetRecords ==
    Len(EventCalls(calls)) > 0 => last.call.op = "setTarget"

\* with a controller attached, replayEvent, loadState or snapshotLoad has
\* returned after handing a target to a leaf model
C33_Witness ==
    /\ mAutomationController # nullptr
    /\ last.call.op \in {"replayEvent", "loadState", "snapshotLoad"}
    /\ ~Running
    /\ Len(LeafCalls(calls)) > 0
    /\ Len(EventCalls(calls)) = 0

\* C34: after a snapshotLoad that returned 0, whatever the model held
\* before, every sensor the stream holds is overridden exactly if the stream
\* says so, and then with the stream's value, whatever number of parameters
\* the stream declares.
C34_LoadedOverridesAsStored ==
    (last.call.op = "snapshotLoad" /\ last.ret = 0
        /\ last.call.from \in {"snapshotSave", "older build"}) =>
       LET data == last.call.data
       IN \A s \in Sensors : s < last.call.sensors =>
             /\ mUseOverride[s] = data.use[s]
             /\ data.use[s] => mOverride[s] = data.ovr[s]

\* the last three leaf updates of a loadState of the records `events`
LoadStateTail(events) ==
    LET targetVelocity == Collected(events, "VELOCITY", FALSE)
    IN <<LeafCall(PHYSICAL_PARAMETER_POSITION, Collected(events, "POSITION", TRUE),
                  PHYSICAL_INTERPOLATION_STEP),
         LeafCall(PHYSICAL_PARAMETER_VELOCITY, Collected(events, "VELOCITY", TRUE),
                  PHYSICAL_INTERPOLATION_STEP),
         IF targetVelocity # kVecZero
         THEN LeafCall(PHYSICAL_PARAMETER_VELOCITY, targetVelocity,
                       PHYSICAL_INTERPOLATION_SMOOTH)
         ELSE LeafCall(PHYSICAL_PARAMETER_POSITION, Collected(events, "POSITION", FALSE),
                       PHYSICAL_INTERPOLATION_SMOOTH)>>

\* C35: when loadState has returned, whatever the records were, its last
\* three leaf updates are a step of the position, a step of the velocity and
\* a smooth target, each with the value of the last record that has it and
\* (0,0,0) when no record has it; the state is changing and no sensor is
\* overridden; and no step of loadState changes mModelTimeNs.
C35_LoadStateAppliesPositionAndVelocity ==
    /\ []((last.call.op = "loadState" /\ ~Running) =>
            LET leaf == LeafCalls(calls)
            IN /\ Len(leaf) >= 3
               /\ SubSeq(leaf, Len(leaf) - 2, Len(leaf))
                     = LoadStateTail(last.call.state.physical_model)
               /\ mIsPhysicalStateChanging
               /\ \A s \in Sensors : ~mUseOverride[s])
    /\ [][last'.call.op = "loadState" => mModelTimeNs' = mModelTimeNs]_vars

\* loadState of a list without position and velocity records has returned
\* on a model whose time is not the list's timestamp: the position has a
\* step to (0,0,0) and a smooth target (0,0,0)
C35_Witness ==
    /\ last.call.op = "loadState"
    /\ ~Running
    /\ last.call.state.physical_model = <<TemperatureEvent>>
    /\ mModelTimeNs # last.call.state.initial_time
    /\ Len(LeafCalls(calls)) = 5
    /\ LeafCalls(calls)[3] = LeafCall(PHYSICAL_PARAMETER_POSITION, kVecZero,
                                      PHYSICAL_INTERPOLATION_STEP)
    /\ LeafCalls(calls)[5] = LeafCall(PHYSICAL_PARAMETER_POSITION, kVecZero,
                                      PHYSICAL_INTERPOLATION_SMOOTH)
    /\ mIsPhysicalStateChanging

\* C36: no step of setPhysicalStateAgent, the calls of the hooks included,
\* changes the flag, an override flag or value, a measurement id or a leaf
\* model: the function changes mAgent and nothing else.
C36_AttachChangesOnlyAgent ==
    [][last'.call.op = "setPhysicalStateAgent" =>
          UNCHANGED <<mIsPhysicalStateChanging, mUseOverride, mOverride, mMeasurementId,
                      mInertialModel, mAmbientEnvironment, mAutomationController,
                      mModelTimeNs, mGroundTruthStream>>]_vars

\* an agent was attached to a changing model with an overridden sensor and
\* has been told that the target state changed
C36_Witness ==
    /\ last.call.op = "setPhysicalStateAgent"
    /\ ~Running
    /\ mAgent = 1
    /\ mIsPhysicalStateChanging
    /\ mUseOverride[ANDROID_SENSOR_TEMPERATURE]
    /\ Callbacks(calls, "onPhysicalStateChanging") = 1
    /\ Callbacks(calls, "onTargetStateChanged") = 1

\* the member functions that only read
ReadOperations == {"getParameter", "getTransform", "snapshotSave", "saveState"}

\* C37: no step of getParameter, getTransform, snapshotSave or saveState
\* changes a leaf model, an override flag or value, a measurement id or the
\* flag, and neither does a step of getSensorValue while the state is
\* settled; a getSensorValue that returned on a settled model returned the
\* sensor's measurement id as it is, so a repeated read returns the same id.
C37_ReadsChangeNothing ==
    /\ [][(\/ last'.call.op \in ReadOperations
           \/ last'.call.op = "getSensor" /\ ~mIsPhysicalStateChanging) =>
             UNCHANGED <<mIsPhysicalStateChanging, mUseOverride, mOverride,
                         mMeasurementId, mInertialModel, mAmbientEnvironment>>]_vars
    /\ []((last.call.op = "getSensor" /\ ~Running /\ ~mIsPhysicalStateChanging) =>
            last.ret.measurement_id = mMeasurementId[last.call.sensor])

\* a sensor that is not overridden was read on a model that has settled
\* once, and the read returned the id 1
C37_Witness ==
    /\ last.call.op = "getSensor"
    /\ ~Running
    /\ ~mIsPhysicalStateChanging
    /\ ~mUseOverride[last.call.sensor]
    /\ last.ret.measurement_id = 1
    /\ mMeasurementId[last.call.sensor] = 1

\* C38: setOverride(S, v) marks S as overridden, stores v for S and adds one
\* to the measurement id of S; the override flag, the override value and the
\* measurement id of every other sensor and both leaf models are as before,
\* and the flag is true afterwards.
C38_SetOverrideOneSlot ==
    [][last'.call.op = "setOverride" =>
          LET S == last'.call.sensor
          IN /\ mUseOverride' = [mUseOverride EXCEPT ![S] = TRUE]
             /\ mOverride' = [mOverride EXCEPT ![S] = last'.call.value]
             /\ mMeasurementId' = [mMeasurementId EXCEPT ![S] = @ + 1]
             /\ UNCHANGED <<mInertialModel, mAmbientEnvironment, mModelTimeNs, mAgent>>
             /\ mIsPhysicalStateChanging']_vars

\* the temperature was overridden on a model that had settled with the
\* acceleration overridden: the agent is told, the acceleration is as it was
C38_Witness ==
    /\ last.call.op = "setOverride"
    /\ last.call.sensor = ANDROID_SENSOR_TEMPERATURE
    /\ mUseOverride[ANDROID_SENSOR_ACCELERATION]
    /\ mOverride[ANDROID_SENSOR_ACCELERATION] = <<1, 0, 0>>
    /\ mMeasurementId[ANDROID_SENSOR_ACCELERATION] = 2
    /\ mMeasurementId[ANDROID_SENSOR_TEMPERATURE] = 2
    /\ mOverride[ANDROID_SENSOR_TEMPERATURE] = 0
    /\ Callbacks(calls, "onPhysicalStateChanging") = 1

\* the call in progress hands at least one target to a leaf model
SetsTarget ==
    \/ last.call.op \in {"setTarget", "replayEvent", "loadState"}
    \/ /\ last.call.op = "snapshotLoad"
       /\ ToInt32(stream_get_be32(last.call.f, 1)) >= 1

\* C39: a step that makes an overridden sensor not overridden is a step of
\* a member function that sets a target; no step of setCurrentTime changes
\* an override flag or value, and a setCurrentTime at which both leaf models
\* are stable leaves the state settled.
C39_OverrideOutlivesStabilization ==
    /\ [][(\E s \in Sensors : mUseOverride[s] /\ ~mUseOverride'[s]) => SetsTarget']_vars
    /\ [][last'.call.op = "setCurrentTime" => UNCHANGED <<mUseOverride, mOverride>>]_vars
    /\ []((last.call.op = "setCurrentTime" /\ ~Running) => ~mIsPhysicalStateChanging)

\* the temperature was overridden on a settled model with an agent, and the
\* setCurrentTime after it has settled the state and told the agent: the
\* override is active with its value
C39_Witness ==
    /\ last.call.op = "setCurrentTime"
    /\ ~Running
    /\ ~mIsPhysicalStateChanging
    /\ Callbacks(calls, "onPhysicalStateStabilized") = 1
    /\ mUseOverride[ANDROID_SENSOR_TEMPERATURE]
    /\ mOverride[ANDROID_SENSOR_TEMPERATURE] = 1
    /\ mMeasurementId[ANDROID_SENSOR_TEMPERATURE] = 2
    /\ ParameterTarget(Members, PHYSICAL_PARAMETER_TEMPERATURE) = 0

(***************************************************************************)
(* SpecLoad: thread 1 loads the snapshot of a model whose targets are all  *)
(* 1 and whose sensors are all overridden; thread 2 saves a snapshot,      *)
(* reads a sensor or reads a target, step by step, and `last` holds what   *)
(* thread 2 called and, once the call has returned, what it returned.      *)
(***************************************************************************)
LoadedStream == SavedBy(SampleData(1, TRUE), MAX_PHYSICAL_PARAMETERS, MAX_SENSORS)
StreamBeforeLoad == SavedBy(DataOf(InitialMembers), MAX_PHYSICAL_PARAMETERS, MAX_SENSORS)

StartObserve(what, prog) ==
    /\ threads[2].prog = <<>>
    /\ threads' = [threads EXCEPT ![2] = [IdleThread EXCEPT !.prog = prog]]
    /\ calls' = <<>>
    /\ last' = [ret |-> "void", call |-> what]
    /\ UNCHANGED <<mIsPhysicalStateChanging, mUseOverride, mMeasurementId, mOverride,
                   mInertialModel, mAmbientEnvironment, mAgent, mAutomationController,
                   mModelTimeNs, mGroundTruthStream, openFiles, mMutex>>

StepObserve ==
    /\ threads[2].prog # <<>>
    /\ Head(threads[2].prog).i = "lock" => mMutex.owner \in {0, 2}
    /\ \E r \in {Exec(Members, [threads[2] EXCEPT !.prog = Tail(@)], 2,
                      Head(threads[2].prog))} :
          /\ Commit(r.m)
          /\ threads' = [threads EXCEPT ![2] = IF r.th.prog = <<>> THEN IdleThread
                                                ELSE r.th]
          /\ last' = IF r.th.prog = <<>> THEN [last EXCEPT !.ret = r.th.ret] ELSE last

NextLoad ==
    \/ StepThread(1)
    \/ StepObserve
    \/ StartThread(1, snapshotLoad(LoadedStream))
    \/ StartObserve([op |-> "snapshotSave"], snapshotSave(<<>>))
    \/ StartObserve([sensor |-> ANDROID_SENSOR_TEMPERATURE, op |-> "getSensorValue"],
                    getSensorValue(ANDROID_SENSOR_TEMPERATURE))
    \/ StartObserve([p |-> PHYSICAL_PARAMETER_TEMPERATURE, op |-> "getParameter"],
                    getParameter(PHYSICAL_PARAMETER_TEMPERATURE, PARAMETER_VALUE_TYPE_TARGET))

SpecLoad == Init /\ [][NextLoad]_vars

\* C40: a snapshotSave that runs while another thread runs snapshotLoad
\* returns the stream of the state before the load or the stream of the
\* state after it (the loaded stream itself).
C40_SnapshotLoadIsAtomic ==
    (last.call.op = "snapshotSave" /\ threads[2].prog = <<>>)
       => last.ret \in {StreamBeforeLoad, LoadedStream}

====
